---------------------------- MODULE Spec2Model ----------------------------
(***************************************************************************)
(* BookTrackerBot: the SQLite store (database/db.py), the recommendation   *)
(* engine (services/recommendations.py) and the chat handlers with their   *)
(* dialogues (bot/handlers.py, bot/keyboards.py), as one state machine.    *)
(*                                                                         *)
(* Text columns are sequences of one-character strings, so that SQL LIKE,  *)
(* the ' '.join of the text representation and the TF-IDF tokenizer are    *)
(* computed character by character, as the code computes them.  A NULL     *)
(* text column is the one-element sequence NULL.                           *)
(***************************************************************************)
EXTENDS Integers, Sequences, FiniteSets, TLC

VARIABLES
    books,       \* table books: a sequence of rows, the row's id is its index
    user_books,  \* table user_books: a set of rows, at most one per (user, book)
    rec,         \* the get_recommendations call being answered: arguments, trace,
                 \* outcome; NoRec once the chat has moved on
    sel,         \* the last pure function applied to given inputs: the inputs
                 \* and what it returned
    user_states, \* table user_states: per user the row (state, data), or none
    user_data,   \* context.user_data: per user the stored search results
    reply,       \* the last message a handler sent: to whom, and which
    clock        \* CURRENT_TIMESTAMP of the store

vars == <<books, user_books, rec, sel, user_states, user_data, reply, clock>>

(***************************************************************************)
(* Bounds of the model and constants of the program                        *)
(***************************************************************************)
\* Library entries the reader may hold at a time.
MaxLibrary == 3
\* Library entries the other reader may hold at a time.
MaxOther == 1
\* The catalog ids (1..MaxShelf) a user presses rating and remove buttons for.
MaxShelf == 4

\* config.MAX_RECOMMENDATIONS (config.py is not among the sources; the
\* specification names 5 as the configured maximum).
MAX_RECOMMENDATIONS == 5
\* _get_popular_books(limit=10)
PopularLimit == 10
\* _find_books_by_genre(genre, limit=5)
GenreLimit == 5
\* preferred_genres[:3] and user_genres[:3]
MaxGenres == 3
\* _get_candidate_books(limit=100)
CandidateLimit == 100
\* sorted_indices[:10]
TopSimilar == 10
\* book['description'][:500]
DescriptionCut == 500
\* user_rating INTEGER CHECK(user_rating >= 1 AND user_rating <= 10)
MinRating == 1
MaxRating == 10
\* the encoding of a NULL user_rating
NoRating == -1
\* a recommendation that carries no similarity_score
NoScore == -1

\* The chats: user 1 is the reader who asks for recommendations, user 2
\* another reader, whose library counts in the popularity of a book.
Users == {1, 2}
Reader == 1

(***************************************************************************)
(* Text                                                                    *)
(***************************************************************************)
NULL == <<"NULL">>

IsNull(s) == s = NULL

\* Python truthiness of an optional string: neither None nor ''.
Truthy(s) == ~IsNull(s) /\ s # <<>>

\* str.lower() / SQLite's ASCII case folding, on the model's alphabet.
Lower(c) ==
    CASE c = "F" -> "f"
      [] c = "A" -> "a"
      [] OTHER -> c

\* SQLite: expr LIKE pattern.  % matches any run of characters, _ any one
\* character, letters are compared without case.
RECURSIVE Like(_, _)
Like(s, p) ==
    IF p = <<>> THEN s = <<>>
    ELSE IF Head(p) = "%"
         THEN Like(s, Tail(p)) \/ (s # <<>> /\ Like(Tail(s), p))
         ELSE /\ s # <<>>
              /\ (Head(p) = "_" \/ Lower(Head(p)) = Lower(Head(s)))
              /\ Like(Tail(s), Tail(p))

\* Python: pattern in text (a case-sensitive substring test).
RECURSIVE IsPrefix(_, _)
IsPrefix(p, s) ==
    \/ p = <<>>
    \/ s # <<>> /\ Head(p) = Head(s) /\ IsPrefix(Tail(p), Tail(s))

RECURSIVE Contains(_, _)
Contains(s, p) ==
    \/ IsPrefix(p, s)
    \/ s # <<>> /\ Contains(Tail(s), p)

\* ' '.join(parts)
RECURSIVE Join(_)
Join(parts) ==
    IF parts = <<>> THEN <<>>
    ELSE IF Len(parts) = 1 THEN parts[1]
    ELSE parts[1] \o <<" ">> \o Join(Tail(parts))

\* s[:n]
Cut(s, n) == IF Len(s) <= n THEN s ELSE SubSeq(s, 1, n)

(***************************************************************************)
(* TfidfVectorizer(stop_words='english', max_features=5000,                *)
(*                 ngram_range=(1, 2))                                     *)
(***************************************************************************)
\* \w of the token pattern (?u)\b\w\w+\b: letters, digits and the underscore.
IsWordChar(c) == c \notin {" ", "%", "-"}

Flush(cur, acc) == IF Len(cur) >= 2 THEN Append(acc, cur) ELSE acc

RECURSIVE Scan(_, _, _)
Scan(s, cur, acc) ==
    IF s = <<>> THEN Flush(cur, acc)
    ELSE IF IsWordChar(Head(s))
         THEN Scan(Tail(s), Append(cur, Lower(Head(s))), acc)
         ELSE Scan(Tail(s), <<>>, Flush(cur, acc))

\* The words of sklearn's ENGLISH_STOP_WORDS that the model's texts use.
StopWords == { <<"t", "h", "e">>, <<"o", "f">> }

\* Lowercase, tokenize, drop the stop words.
Tokens(s) == SelectSeq(Scan(s, <<>>, <<>>), LAMBDA t : t \notin StopWords)

\* The unigrams and bigrams of a document, in order, with repetitions.
Ngrams(s) ==
    LET t == Tokens(s)
    IN  [i \in 1..Len(t) |-> <<t[i]>>]
        \o [i \in 1..(IF Len(t) = 0 THEN 0 ELSE Len(t) - 1) |-> <<t[i], t[i + 1]>>]

Range(f) == {f[i] : i \in DOMAIN f}

\* The function f itself, with its values computed once (TLC would compute
\* f[x] anew at every use).
Eager(f) == f @@ <<>>

RECURSIVE SumOver(_, _)
SumOver(S, f) ==
    IF S = {} THEN 0
    ELSE LET x == CHOOSE y \in S : TRUE
         IN  f[x] + SumOver(S \ {x}, f)

\* round(10 * (ln((1 + n) / (1 + df)) + 1)): sklearn's smoothed idf, in
\* tenths, for n documents of which df hold the term (row n, column df).
IdfTable ==
    << <<10>>,
       <<14, 10>>,
       <<17, 13, 10>>,
       <<19, 15, 12, 10>>,
       <<21, 17, 14, 12, 10>>,
       <<23, 18, 16, 13, 12, 10>>,
       <<24, 20, 17, 15, 13, 11, 10>>,
       <<25, 21, 18, 16, 14, 13, 11, 10>>,
       <<26, 22, 19, 17, 15, 14, 12, 11, 10>>,
       <<27, 23, 20, 18, 16, 15, 13, 12, 11, 10>>,
       <<28, 24, 21, 19, 17, 15, 14, 13, 12, 11, 10>>,
       <<29, 25, 22, 20, 18, 16, 15, 14, 13, 12, 11, 10>>,
       <<29, 25, 23, 20, 18, 17, 16, 14, 13, 12, 12, 11, 10>>,
       <<30, 26, 23, 21, 19, 18, 16, 15, 14, 13, 12, 11, 11, 10>>,
       <<31, 27, 24, 22, 20, 18, 17, 16, 15, 14, 13, 12, 11, 11, 10>>,
       <<31, 27, 24, 22, 20, 19, 18, 16, 15, 14, 13, 13, 12, 11, 11, 10>> >>

Idf(n, df) == IdfTable[n][df]

\* floor(sqrt(x)) by bisection on lo..hi.
RECURSIVE SqrtIn(_, _, _)
SqrtIn(x, lo, hi) ==
    IF lo >= hi THEN lo
    ELSE LET mid == (lo + hi + 1) \div 2
         IN  IF mid * mid <= x THEN SqrtIn(x, mid, hi) ELSE SqrtIn(x, lo, mid - 1)

Isqrt(x) == SqrtIn(x, 0, 46340)

\* fit_transform(all_texts): one row per document, the tf * idf weight of
\* every vocabulary term (before the l2 normalisation, which Cosine applies).
\* docs is the sequence of Ngrams of the documents.
Vocabulary(docs) == UNION {Range(docs[i]) : i \in DOMAIN docs}

Tf(doc, term) == Cardinality({k \in DOMAIN doc : doc[k] = term})

Df(docs, term) == Cardinality({i \in DOMAIN docs : term \in Range(docs[i])})

TfidfMatrix(docs) ==
    LET vocab == Vocabulary(docs)
        idf == Eager([t \in vocab |-> Idf(Len(docs), Df(docs, t))])
    IN  Eager([i \in DOMAIN docs |-> Eager([t \in vocab |-> Tf(docs[i], t) * idf[t]])])

Dot(a, b) == SumOver(DOMAIN a, [t \in DOMAIN a |-> a[t] * b[t]])

\* cosine_similarity of two rows, in 1/10000, from their dot product and
\* their squared lengths: dot / (|a| * |b|), and 0 for a zero row (sklearn's
\* normalize leaves a zero row zero).
Cosine(dot, sqa, sqb) ==
    LET den == Isqrt(sqa * sqb)
    IN  IF den = 0 THEN 0 ELSE (dot * 10000) \div den

\* 0.05, in 1/10000
SimilarityThreshold == 500


(***************************************************************************)
(* The catalog rows the chats add, in the order they are added              *)
(***************************************************************************)
\* The characters of the model's texts, in code-point order (the BINARY
\* collation GROUP BY sorts with).
Alphabet ==
    << " ", "%", "-", "0", "1", "2", "3", "4", "5", "6", "7", "8", "9", "A", "F",
       "_", "a", "b", "c", "d", "e", "f", "g", "h", "i", "k", "m", "n", "o", "p",
       "r", "s", "t", "w", "y" >>

Code(c) == CHOOSE i \in DOMAIN Alphabet : Alphabet[i] = c

RECURSIVE StrLess(_, _)
StrLess(a, b) ==
    IF a = <<>> THEN b # <<>>
    ELSE IF b = <<>> THEN FALSE
    ELSE IF Head(a) = Head(b) THEN StrLess(Tail(a), Tail(b))
    ELSE Code(Head(a)) < Code(Head(b))

\* A row of books; openlibrary_id is NULL unless the caller passes one.
Row(t, a, g, d) ==
    [title |-> t, author |-> a, genre |-> g, description |-> d,
     openlibrary_id |-> NULL]

FA == <<"f", "a">>
DR == <<"d", "r">>
HI == <<"h", "i">>
EPIC_FA == <<"e", "p", " ", "F", "a">>
ANN == <<"a", "n", "n">>
BOB == <<"b", "o", "b">>
MAGIC == <<"m", "a", "g", "i", "c">>
RING == <<"r", "i", "n", "g">>
WAR == <<"w", "a", "r">>
SP == <<" ">>

\* The k-th row added to the catalog of the bot's database.
CatalogSource ==
    << Row(<<"b", "1">>, ANN, FA, MAGIC \o SP \o RING),
       Row(<<"b", "2">>, ANN, FA, MAGIC \o SP \o WAR),
       Row(<<"b", "3">>, BOB, DR, NULL),
       Row(<<"b", "4">>, BOB, EPIC_FA, <<"t", "h", "e">> \o SP \o MAGIC \o SP \o RING),
       Row(<<"b", "5">>, BOB, NULL, RING \o SP \o <<"o", "f">> \o SP \o WAR),
       Row(<<"b", "6">>, ANN, HI, <<>>),
       Row(<<"b", "7">>, BOB, DR, WAR),
       Row(<<"b", "8">>, ANN, FA, RING) >>

\* A catalog of ten books in the genres fa and dr, five of each.
E2ECatalog ==
    << Row(<<"b", "1">>, ANN, FA, MAGIC \o SP \o RING),
       Row(<<"b", "2">>, BOB, DR, WAR),
       Row(<<"b", "3">>, ANN, FA, MAGIC \o SP \o WAR),
       Row(<<"b", "4">>, BOB, DR, RING \o SP \o WAR),
       Row(<<"b", "5">>, ANN, FA, MAGIC),
       Row(<<"b", "6">>, BOB, DR, NULL),
       Row(<<"b", "7">>, ANN, FA, RING),
       Row(<<"b", "8">>, BOB, DR, WAR \o SP \o RING),
       Row(<<"b", "9">>, ANN, FA, <<>>),
       Row(<<"b", "0">>, BOB, DR, MAGIC \o SP \o RING \o SP \o WAR) >>

\* Rows that all match the genre fa, added one by one.
FantasySource ==
    << Row(<<"b", "1">>, ANN, FA, MAGIC \o SP \o RING),
       Row(<<"b", "2">>, ANN, FA, NULL),
       Row(<<"b", "3">>, BOB, EPIC_FA, WAR),
       Row(<<"b", "4">>, BOB, FA, NULL),
       Row(<<"b", "5">>, ANN, FA, <<>>),
       Row(<<"b", "6">>, BOB, EPIC_FA, NULL) >>

(***************************************************************************)
(* database/db.py: the queries                                             *)
(***************************************************************************)
BookIds == DOMAIN books

Owned(u) == {r.book_id : r \in {x \in user_books : x.user_id = u}}

\* get_user_books(user_id): the user's rows joined with the catalog.  (The
\* rows come ordered by date_added; every reader in the engine uses them as
\* a collection.)
get_user_books(u) ==
    {[id |-> r.book_id, user_rating |-> r.user_rating] :
        r \in {x \in user_books : x.user_id = u /\ x.book_id \in BookIds}}

\* check_book_in_user_library(user_id, book_id)
check_book_in_user_library(u, b) ==
    \E r \in user_books : r.user_id = u /\ r.book_id = b

\* The rows of get_user_genres_and_ratings before ORDER BY: one per genre of
\* the user's entries that have a genre and a rating; avg_rating is kept as
\* the fraction num / den.
GenreGroups(u) ==
    LET rated == {r \in get_user_books(u) :
                     /\ ~IsNull(books[r.id].genre)
                     /\ r.user_rating # NoRating}
        genres == {books[r.id].genre : r \in rated}
        of(g) == {r \in rated : books[r.id].genre = g}
    IN  {[genre |-> g,
          avg_rating |-> [num |-> SumOver(of(g), [r \in of(g) |-> r.user_rating]),
                          den |-> Cardinality(of(g))],
          count |-> Cardinality(of(g))] : g \in genres}

AvgLess(a, b) == a.num * b.den < b.num * a.den

\* ORDER BY count DESC, avg_rating DESC
CountBefore(x, y) ==
    \/ x.count > y.count
    \/ /\ x.count = y.count
       /\ \/ AvgLess(y.avg_rating, x.avg_rating)
          \/ ~AvgLess(x.avg_rating, y.avg_rating) /\ StrLess(x.genre, y.genre)

\* ORDER BY avg_rating DESC, count DESC; rows equal in both stay in GROUP
\* BY's order, the genre ascending.
AggBefore(x, y) ==
    \/ AvgLess(y.avg_rating, x.avg_rating)
    \/ /\ ~AvgLess(x.avg_rating, y.avg_rating)
       /\ \/ x.count > y.count
          \/ x.count = y.count /\ StrLess(x.genre, y.genre)

RECURSIVE SortAggs(_)
SortAggs(S) ==
    IF S = {} THEN <<>>
    ELSE LET first == CHOOSE x \in S : \A y \in S \ {x} : AggBefore(x, y)
         IN  <<first>> \o SortAggs(S \ {first})

\* get_user_genres_and_ratings(user_id)
get_user_genres_and_ratings(u) == SortAggs(GenreGroups(u))

\* Ascending list of a set of integers.
RECURSIVE Ascending(_)
Ascending(S) ==
    IF S = {} THEN <<>>
    ELSE LET m == CHOOSE x \in S : \A y \in S : x <= y
         IN  <<m>> \o Ascending(S \ {m})

Min(a, b) == IF a <= b THEN a ELSE b

\* ORDER BY RANDOM() LIMIT n over the rows S: any min(n, |S|) of them.  The
\* order RANDOM() gives them is not kept: the engine shuffles its list before
\* it returns it, and the model lists a sample by ascending id.
RandomLimit(S, n) == {T \in SUBSET S : Cardinality(T) = Min(n, Cardinality(S))}

Tag(ids, type) ==
    [i \in DOMAIN ids |->
        [id |-> ids[i], recommendation_type |-> type, similarity_score |-> NoScore]]


(***************************************************************************)
(* services/recommendations.py                                             *)
(***************************************************************************)
\* The store calls of one get_recommendations call that may raise.
FaultPoints ==
    {"library", "genres", "find1", "find2", "find3", "library2", "candidates",
     "popular"}

FindFault(i) == <<"find1", "find2", "find3">>[i]

\* What a call gives: the list it returns (rows), or an exception (raised),
\* and the fault points that raised on the way (hit).
Returns(list) == [rows |-> list, raised |-> FALSE, hit |-> {}]
Raises(point) == [rows |-> <<>>, raised |-> TRUE, hit |-> {point}]

\* The store call at a fault point of F may raise instead of returning.
MayRaise(point, F) == IF point \in F THEN {Raises(point)} ELSE {}

\* try: ... except Exception as e: logger.error(...); return []
CaughtEmpty(outcomes) ==
    {IF o.raised THEN [o EXCEPT !.rows = <<>>, !.raised = FALSE] ELSE o : o \in outcomes}

\* Rows of books LEFT JOIN user_books for one book: COUNT(ub.book_id).
Popularity(b) == Cardinality({r \in user_books : r.book_id = b})

\* ORDER BY popularity DESC, b.id ASC
OldestFirst(a, b) ==
    \/ Popularity(a) > Popularity(b)
    \/ Popularity(a) = Popularity(b) /\ a < b

\* ORDER BY popularity DESC, b.id DESC
PopularBefore(a, b) ==
    \/ Popularity(a) > Popularity(b)
    \/ Popularity(a) = Popularity(b) /\ a > b

RECURSIVE SortPopular(_)
SortPopular(S) ==
    IF S = {} THEN <<>>
    ELSE LET first == CHOOSE x \in S : \A y \in S \ {x} : PopularBefore(x, y)
         IN  <<first>> \o SortPopular(S \ {first})

\* The rows of the popularity query, tagged.
PopularRows == Tag(Cut(SortPopular(BookIds), PopularLimit), "popular")

\* The try block of _get_popular_books(limit=10)
PopularQuery(F) == {Returns(PopularRows)} \cup MayRaise("popular", F)

\* The popularity query without its try/except.
PopularUncaught(F) == PopularQuery(F)

\* _get_popular_books(limit=10)
_get_popular_books(F) == CaughtEmpty(PopularQuery(F))

\* The list as it is, duplicates kept.
KeepDuplicates(list) == list

\* _remove_duplicates(books)
RECURSIVE Dedup(_, _)
Dedup(list, seen_ids) ==
    IF list = <<>> THEN <<>>
    ELSE LET book_id == Head(list).id
         IN  IF book_id # 0 /\ book_id \notin seen_ids
             THEN <<Head(list)>> \o Dedup(Tail(list), seen_ids \cup {book_id})
             ELSE Dedup(Tail(list), seen_ids)

\* The list with the last occurrence of each id kept.
KeepLast(list) ==
    LET back(l) == [i \in 1..Len(l) |-> l[Len(l) + 1 - i]]
    IN  back(Dedup(back(list), {}))

\* seen_ids = set(); unique_books = []; for book in books: ...
_remove_duplicates(list) == Dedup(list, {})

\* avg_rating > 5.0
AboveFive(agg) == agg.avg_rating.num > 5 * agg.avg_rating.den

\* avg_rating >= 5.0
Qualifies(agg) == agg.avg_rating.num >= 5 * agg.avg_rating.den

GenresOf(aggs) == [i \in DOMAIN aggs |-> aggs[i].genre]

\* preferred_genres of _get_genre_based_recommendations
PreferredGenres(user_genres) ==
    LET preferred == GenresOf(SelectSeq(user_genres, Qualifies))
    IN  IF preferred = <<>> THEN GenresOf(Cut(user_genres, MaxGenres)) ELSE preferred

\* WHERE genre LIKE '%' || genre || '%'
GenreMatches(genre) ==
    {b \in BookIds :
        /\ ~IsNull(books[b].genre)
        /\ Like(books[b].genre, <<"%">> \o genre \o <<"%">>)}

\* The try block of _find_books_by_genre(genre, limit), for the i-th queried
\* genre.
FindQuery(genre, limit, i, F) ==
    {Returns(Tag(Ascending(T), "genre_based")) :
        T \in RandomLimit(GenreMatches(genre), limit)}
    \cup MayRaise(FindFault(i), F)

\* _find_books_by_genre(genre, limit=3)
FindThree(genre, i, F) == CaughtEmpty(FindQuery(genre, GenreLimit - 2, i, F))

\* _find_books_by_genre(genre, limit=6)
FindSix(genre, i, F) == CaughtEmpty(FindQuery(genre, GenreLimit + 1, i, F))

\* _find_books_by_genre(genre, limit=5)
_find_books_by_genre(genre, i, F) == CaughtEmpty(FindQuery(genre, GenreLimit, i, F))

\* for genre in preferred_genres[:3]: recommendations.extend(...)
RECURSIVE FindAll(_, _, _)
FindAll(genres, i, F) ==
    IF i > Len(genres) THEN {Returns(<<>>)}
    ELSE {[rows |-> f.rows \o rest.rows, raised |-> f.raised \/ rest.raised,
           hit |-> f.hit \cup rest.hit] :
            f \in _find_books_by_genre(genres[i], i, F),
            rest \in FindAll(genres, i + 1, F)}

\* The genres the genre strategy queries for a user.
QueriedGenres(u) == Cut(PreferredGenres(get_user_genres_and_ratings(u)), MaxGenres)

\* The try block of _get_genre_based_recommendations(user_id)
GenreBody(u, F) ==
    LET user_genres == get_user_genres_and_ratings(u)
    IN  MayRaise("genres", F)
        \cup (IF user_genres = <<>> THEN {Returns(<<>>)}
              ELSE FindAll(QueriedGenres(u), 1, F))

\* _get_genre_based_recommendations(user_id) without its except clause
GenreUncaught(u, F) == GenreBody(u, F)

\* _get_genre_based_recommendations(user_id)
_get_genre_based_recommendations(u, F) == CaughtEmpty(GenreBody(u, F))

\* The text representation of a book: title, author, genre and the first 500
\* characters of the description, those that are present, joined by spaces.
BookText(b) ==
    LET row == books[b]
        part(s) == IF Truthy(s) THEN <<s>> ELSE <<>>
    IN  Join(part(row.title) \o part(row.author) \o part(row.genre)
             \o part(IF IsNull(row.description) THEN NULL
                     ELSE Cut(row.description, DescriptionCut)))

\* WHERE description IS NOT NULL AND description != ''
Described == {b \in BookIds : Truthy(books[b].description)}

\* The doubles of cosine_similarity: rows of one direction have the cosine
\* 1.0 in exact arithmetic; the normalised rows' dot product, summed in
\* doubles, comes out as 1.0 or off by one unit in the last place.  With up,
\* it comes out one unit above (a unit of the model's scale stands for it).
Rounded(cosine, dot, sqa, sqb, up) ==
    IF up /\ dot > 0 /\ dot * dot = sqa * sqb THEN cosine + 1 ELSE cosine

\* avg_similarities of the candidates of pool against the liked books, in
\* 1/10000, as the sum over the liked books (the mean is sum / |liked|).
SimilaritySums(liked, pool, up) ==
    LET u == Ascending(liked)
        c == Ascending(pool)
        docs == Eager([i \in 1..(Len(u) + Len(c)) |->
                    Ngrams(BookText(IF i <= Len(u) THEN u[i] ELSE c[i - Len(u)]))])
        m == TfidfMatrix(docs)
        sq == Eager([i \in DOMAIN m |-> Dot(m[i], m[i])])
        cos(i, k) == LET dot == Dot(m[i], m[k])
                     IN  Rounded(Cosine(dot, sq[i], sq[k]), dot, sq[i], sq[k], up)
    IN  Eager([b \in pool |->
            LET i == CHOOSE k \in DOMAIN c : c[k] = b
            IN  SumOver(DOMAIN u, [k \in DOMAIN u |-> cos(Len(u) + i, k)])])

\* fit_transform raises ValueError on an empty vocabulary.
EmptyVocabulary(liked, pool) ==
    \A b \in liked \cup pool : Ngrams(BookText(b)) = <<>>

\* np.argsort(avg_similarities), without the [::-1]
RECURSIVE SortAscending(_, _)
SortAscending(S, score) ==
    IF S = {} THEN <<>>
    ELSE LET first == CHOOSE x \in S : \A y \in S \ {x} :
                          score[x] < score[y] \/ (score[x] = score[y] /\ x < y)
         IN  <<first>> \o SortAscending(S \ {first}, score)

\* Candidates by descending score; equal scores by ascending id.
RECURSIVE SortByScore(_, _)
SortByScore(S, score) ==
    IF S = {} THEN <<>>
    ELSE LET first == CHOOSE x \in S : \A y \in S \ {x} :
                          score[x] > score[y] \/ (score[x] = score[y] /\ x < y)
         IN  <<first>> \o SortByScore(S \ {first}, score)

\* np.mean of n cosines whose sum is given, in 1/10000, rounded up (so that
\* it exceeds a whole number exactly when the mean does).
Mean(sum, n) == (sum + n - 1) \div n

\* sorted_indices[:10] and the threshold: the ten best candidates (any ten
\* that no left-out candidate beats: argsort orders equal scores by the
\* pool's random order), those above 0.05, best first, each with its score.
RankTop(pool, sums, n, limit, threshold) ==
    LET tops == {T \in RandomLimit(pool, limit) :
                    \A x \in T, y \in pool \ T : sums[x] >= sums[y]}
    IN  {LET kept == {b \in T : sums[b] > threshold * n}
             order == SortByScore(kept, sums)
         IN  [i \in DOMAIN order |->
                 [id |-> order[i], recommendation_type |-> "content_based",
                  similarity_score |-> Mean(sums[order[i]], n)]] : T \in tops}

\* similarities, avg_similarities and the recommendations built from them
TopRecommendations(liked, pool, up) ==
    RankTop(pool, SimilaritySums(liked, pool, up), Cardinality(liked), TopSimilar,
            SimilarityThreshold)

\* The try block of _get_candidate_books(limit): the sampled pool, as the set
\* of its ids.
CandidateQuery(limit, F) ==
    {Returns(Ascending(pool)) : pool \in RandomLimit(Described, limit)}
    \cup MayRaise("candidates", F)

\* _get_candidate_books(limit=100)
_get_candidate_books(F) == CaughtEmpty(CandidateQuery(CandidateLimit, F))

\* Whether the doubles of a call round up: either way when F lets them,
\* and noted with the call's fault points.
RoundsUp(F) == IF "round_up" \in F THEN {FALSE, TRUE} ELSE {FALSE}

Rounding(up) == IF up THEN {"round_up"} ELSE {}

\* book.get('user_rating', 0) >= 5
Liked(user_rating) == user_rating >= 5

\* The try block of _get_content_based_recommendations(user_id).  Comparing
\* the None of an unrated entry with 5 raises TypeError.
ContentBody(u, F) ==
    LET user_books_ == get_user_books(u)
        unrated == \E r \in user_books_ : r.user_rating = NoRating
        high_rated_books == {r.id : r \in {x \in user_books_ : Liked(x.user_rating)}}
    IN  MayRaise("library2", F)
        \cup
        (IF unrated THEN {[Returns(<<>>) EXCEPT !.raised = TRUE]}
         ELSE IF high_rated_books = {} THEN {Returns(<<>>)}
         ELSE UNION {
                LET pool == Range(c.rows)
                IN  IF pool = {} \/ EmptyVocabulary(high_rated_books, pool)
                    THEN {[c EXCEPT !.rows = <<>>]}
                    ELSE UNION {
                           {[c EXCEPT !.rows = r, !.hit = @ \cup Rounding(up)] :
                              r \in TopRecommendations(high_rated_books, pool, up)}
                           : up \in RoundsUp(F)}
                : c \in _get_candidate_books(F)})

\* _get_content_based_recommendations(user_id)
_get_content_based_recommendations(u, F) == CaughtEmpty(ContentBody(u, F))

\* random.shuffle(list); list[:n]: any arrangement of min(n, len) of the
\* list's entries.
RECURSIVE Arrangements(_, _)
Arrangements(S, k) ==
    IF k = 0 \/ S = {} THEN {<<>>}
    ELSE UNION {{<<x>> \o t : t \in Arrangements(S \ {x}, k - 1)} : x \in S}

\* random.shuffle(list); list[:0]
TakeNone(list, n) == {<<>>}

\* random.shuffle(list); list[:n]
ShuffleCut(list, n) == Arrangements(Range(list), Min(n, Len(list)))

\* [b for b in list]
Unfiltered(list, ids) == list

\* [b for b in list[:self.max_recommendations] if b['id'] not in user_book_ids]
CutThenFilter(list, ids) ==
    SelectSeq(SubSeq(list, 1, Min(MAX_RECOMMENDATIONS, Len(list))),
              LAMBDA b : b.id \notin ids)

\* [b for b in list if b['id'] not in user_book_ids]
NotOwned(list, ids) == SelectSeq(list, LAMBDA b : b.id \notin ids)

\* len(user_books) < 2
ColdBelowTwo(user_books_) == Cardinality(user_books_) < 2

\* len(user_books) <= 3
ColdUpToThree(user_books_) == Cardinality(user_books_) <= 3

\* all_recommendations = content_recs + genre_recs
ContentFirst(genre_recs, content_recs) == content_recs \o genre_recs

\* all_recommendations = genre_recs + content_recs
AllRecommendations(genre_recs, content_recs) == genre_recs \o content_recs

\* len(user_books) <= 2
ColdStart(user_books_) == Cardinality(user_books_) <= 2

\* read is what get_user_books gave get_recommendations, reread what it gave
\* the content strategy; waiting holds the requests that came in while the
\* call ran.
NoRec ==
    [user |-> 0, library |-> {}, path |-> "none", hit |-> {}, preferred |-> <<>>,
     genre_recs |-> <<>>, content_recs |-> <<>>, candidates |-> <<>>,
     popular |-> <<>>, result |-> <<>>, raised |-> FALSE, again |-> FALSE,
     read |-> {}, reread |-> {}, waiting |-> {}]

\* The try block of get_recommendations(user_id) from the line after
\* user_books = get_user_books(user_id): what it returns, or that it raises.
TryFrom(user_books_, u, F) ==
    LET user_book_ids == {r.id : r \in user_books_}
        call == [NoRec EXCEPT !.user = u, !.library = user_book_ids,
                              !.read = user_books_]
    IN  (IF "library" \in F
         THEN {[call EXCEPT !.raised = TRUE, !.hit = {"library"}]} ELSE {})
        \cup
        (IF ColdStart(user_books_)
         THEN {[call EXCEPT !.path = "cold", !.hit = p.hit, !.raised = p.raised,
                            !.popular = p.rows, !.result = p.rows] :
                 p \in _get_popular_books(F)}
         ELSE UNION {
                LET unique_recs == _remove_duplicates(AllRecommendations(g.rows, c.rows))
                    personal_recs == NotOwned(unique_recs, user_book_ids)
                    traced == [call EXCEPT !.preferred =
                                              IF g.rows = <<>> /\ "genres" \in g.hit
                                              THEN <<>>
                                              ELSE PreferredGenres(
                                                     get_user_genres_and_ratings(u)),
                                           !.genre_recs = g.rows,
                                           !.content_recs = c.rows,
                                           !.candidates = personal_recs,
                                           !.reread = get_user_books(u),
                                           !.raised = g.raised \/ c.raised,
                                           !.hit = g.hit \cup c.hit]
                IN  IF traced.raised THEN {traced}
                    ELSE IF personal_recs # <<>>
                    THEN {[traced EXCEPT !.path = "personal", !.result = r] :
                            r \in ShuffleCut(personal_recs, MAX_RECOMMENDATIONS)}
                    ELSE UNION {
                           {[traced EXCEPT !.path = "fallback",
                                           !.hit = @ \cup p.hit,
                                           !.raised = p.raised,
                                           !.popular = p.rows,
                                           !.result = r] :
                              r \in ShuffleCut(NotOwned(p.rows, user_book_ids),
                                               MAX_RECOMMENDATIONS)}
                           : p \in _get_popular_books(F)}
                : g \in _get_genre_based_recommendations(u, F),
                  c \in _get_content_based_recommendations(u, F)})

\* The try block of get_recommendations(user_id): what it returns, or that
\* it raises.
TryBlock(u, F) == TryFrom(get_user_books(u), u, F)

\* except Exception as e: logger.error(...); return self._get_popular_books()
ExceptBlock(tried, F) ==
    {[NoRec EXCEPT !.user = tried.user, !.library = tried.library,
                   !.path = "failure", !.hit = tried.hit \cup p.hit,
                   !.popular = p.rows, !.result = p.rows, !.raised = p.raised] :
        p \in _get_popular_books(F)}

\* What get_recommendations(user_id) returns, with the store calls in F
\* allowed to raise: rec.raised tells whether the call raised to its caller.
ReturnedList(u, F) ==
    \E tried \in TryBlock(u, F) :
        IF tried.raised
        THEN \E handled \in ExceptBlock(tried, F) : rec' = handled
        ELSE rec' = tried

\* A call that also empties the libraries.
ClearingCall(u, F) ==
    /\ ReturnedList(u, F)
    /\ user_books' = {}
    /\ UNCHANGED <<books, user_states>>

\* get_recommendations(user_id): every statement it sends to the store is a
\* SELECT.
get_recommendations(u, F) ==
    /\ ReturnedList(u, F)
    /\ UNCHANGED <<books, user_books, user_states>>

(***************************************************************************)
(* The operations of the chats                                             *)
(***************************************************************************)
\* Catalog rows the model lets the chats add.
MaxBooks == 6

\* The ratings the rating buttons of the model carry: 4 is below the liked
\* and preferred thresholds, 8 above, 0 and 11 outside the CHECK constraint.
RatingInputs(u) == IF u = Reader THEN {0, 4, 8, 11} ELSE {8}

\* A row of user_books; date_added is DEFAULT CURRENT_TIMESTAMP.  (No handler
\* passes notes: user_notes is NULL in every row.)
LibraryRow(u, b, r) ==
    [user_id |-> u, book_id |-> b, user_rating |-> r, date_added |-> clock]

\* CHECK(user_rating >= 1 AND user_rating <= 10): a NULL passes.
RatingCheck(r) == r = NoRating \/ (r >= MinRating /\ r <= MaxRating)

\* The INSERT of add_book_to_global raises sqlite3.IntegrityError: title and
\* author are NOT NULL, openlibrary_id is UNIQUE (NULLs are distinct).
IntegrityError(row) ==
    \/ IsNull(row.title)
    \/ IsNull(row.author)
    \/ /\ ~IsNull(row.openlibrary_id)
       /\ \E i \in BookIds : books[i].openlibrary_id = row.openlibrary_id

\* The encoding of None as a book id.
NoBook == 0

\* What add_book_to_global(...) returns: cursor.lastrowid, the next
\* AUTOINCREMENT value; after an IntegrityError the id of the row with this
\* openlibrary_id, None when there is no such row.
AddedBookId(row) ==
    IF ~IntegrityError(row) THEN Len(books) + 1
    ELSE LET found == IF IsNull(row.openlibrary_id) THEN {}
                      ELSE {i \in BookIds :
                              books[i].openlibrary_id = row.openlibrary_id}
         IN  IF found = {} THEN NoBook ELSE CHOOSE i \in found : \A j \in found : i <= j

\* add_book_to_global(...): INSERT INTO books; nothing is written when the
\* INSERT raises.
add_book_to_global(row) ==
    books' = IF IntegrityError(row) THEN books ELSE Append(books, row)

\* add_book_to_user_library(user_id, book_id, rating): INSERT OR REPLACE
add_book_to_user_library(u, b, r) ==
    /\ RatingCheck(r)
    /\ user_books' = {x \in user_books : ~(x.user_id = u /\ x.book_id = b)}
                       \cup {LibraryRow(u, b, r)}

\* An update that inserts the rated entry next to the one held.
InsertRated(u, b, r) == user_books' = user_books \cup {LibraryRow(u, b, r)}

\* An update that writes the entry anew, as INSERT OR REPLACE does.
ReplaceEntry(u, b, r) ==
    user_books' = {x \in user_books : ~(x.user_id = u /\ x.book_id = b)}
                    \cup {LibraryRow(u, b, r)}

\* update_user_book_rating(user_id, book_id, rating): UPDATE ... WHERE
update_user_book_rating(u, b, r) ==
    /\ check_book_in_user_library(u, b) => RatingCheck(r)
    /\ user_books' = {IF x.user_id = u /\ x.book_id = b
                      THEN [x EXCEPT !.user_rating = r] ELSE x : x \in user_books}

\* remove_book_from_user_library(user_id, book_id): DELETE
remove_book_from_user_library(u, b) ==
    user_books' = {x \in user_books : ~(x.user_id = u /\ x.book_id = b)}

\* Handlers that run whenever their update comes in.
Anytime == TRUE

\* No handler is between computing a recommendation list and sending it: the
\* application handles one update at a time, and get_recommendations does
\* not await.
Idle == rec = NoRec

\* A chat adds the next book of source to the catalog (the flows that end in
\* add_book_to_global).
AddBook(source) ==
    /\ Idle
    /\ Len(books) < Min(MaxBooks, Len(source))
    /\ add_book_to_global(source[Len(books) + 1])
    /\ UNCHANGED <<user_books, rec, sel, user_states, user_data, reply, clock>>

\* handle_callback_query, data = rate_<book>_<rating>.  A rating the CHECK
\* constraint refuses raises in the store; the handler catches it and the
\* tables are as before.
RateCallback(u, b, r) ==
    /\ Idle
    /\ b \in BookIds
    /\ IF ~check_book_in_user_library(u, b)
       THEN /\ Cardinality(Owned(u)) < (IF u = Reader THEN MaxLibrary ELSE MaxOther)
            /\ IF RatingCheck(r) THEN add_book_to_user_library(u, b, r)
               ELSE UNCHANGED user_books
       ELSE IF RatingCheck(r) THEN update_user_book_rating(u, b, r)
            ELSE UNCHANGED user_books
    /\ UNCHANGED <<books, rec, sel, user_states, user_data, reply, clock>>

\* handle_callback_query, data = confirm_remove_<book>
ConfirmRemove(u, b) ==
    /\ Idle
    /\ b \in BookIds
    /\ remove_book_from_user_library(u, b)
    /\ UNCHANGED <<books, rec, sel, user_states, user_data, reply, clock>>

\* recommendations_command and the recommendations callback, up to the
\* returned list: one call of get_recommendations, whose store calls may
\* raise.
Recommend(u) ==
    /\ Idle
    /\ get_recommendations(u, FaultPoints)
    /\ UNCHANGED <<sel, user_data, reply, clock>>

\* The same call with a store that does not fail.
RecommendOk(u) ==
    /\ Idle
    /\ get_recommendations(u, {})
    /\ UNCHANGED <<sel, user_data, reply, clock>>

\* The refresh_recommendations callback, pressed under the list on display:
\* the call is made again, here with a store that does not fail.
Refresh(u) ==
    /\ rec.user = u
    /\ \E tried \in TryBlock(u, {}) : rec' = [tried EXCEPT !.again = TRUE]
    /\ UNCHANGED <<books, user_books, sel, user_states, user_data, reply, clock>>

\* The handler sends the list and returns; the list is dropped.
Reply ==
    /\ ~Idle
    /\ rec' = NoRec
    /\ UNCHANGED <<books, user_books, sel, user_states, user_data, reply, clock>>

\* get_user_state(user_id) of a user without a row: (None, None).
NoState == [state |-> "none", data |-> NULL]

\* context.user_data of a chat that has not searched: no key is set.
NoUserData ==
    [selected_source |-> "none", search_results |-> <<>>, local_results |-> <<>>,
     search_query |-> NULL]

\* The update a handler was called with: its kind (text, command, callback),
\* the command or the callback's prefix, the book id and the number the
\* callback data carry, the text of a message.
Update(kind, data, book, arg, text) ==
    [kind |-> kind, data |-> data, book |-> book, arg |-> arg, text |-> text]

NoReply ==
    [user |-> 0, update |-> Update("none", "none", 0, 0, <<>>), text |-> "none",
     book |-> 0, keyboard |-> <<>>]

\* No dialogue has begun: table user_states is empty, no search was made, no
\* message was sent.
NoDialogue ==
    /\ user_states = [u \in Users |-> NoState]
    /\ user_data = [u \in Users |-> NoUserData]
    /\ reply = NoReply
    /\ clock = 0

NoSel ==
    [aggregates |-> <<>>, preferred |-> <<>>, list |-> <<>>, once |-> <<>>,
     twice |-> <<>>, done |-> FALSE]

\* The database after init_database: empty tables.
Init ==
    /\ books = <<>>
    /\ user_books = {}
    /\ rec = NoRec
    /\ sel = NoSel
    /\ NoDialogue

Next ==
    \/ AddBook(CatalogSource)
    \/ \E u \in Users, b \in 1..MaxShelf : \E r \in RatingInputs(u) : RateCallback(u, b, r)
    \/ \E u \in Users, b \in 1..MaxShelf : ConfirmRemove(u, b)
    \/ Recommend(Reader)
    \/ Reply

Spec == Init /\ [][Next]_vars

\* The reader alone, a catalog of ten books in two genres, a store that does
\* not fail.
InitE2E ==
    /\ books = E2ECatalog
    /\ user_books = {}
    /\ rec = NoRec
    /\ sel = NoSel
    /\ NoDialogue

NextE2E ==
    \/ \E b \in 1..MaxShelf : \E r \in RatingInputs(Reader) : RateCallback(Reader, b, r)
    \/ \E b \in 1..MaxShelf : ConfirmRemove(Reader, b)
    \/ RecommendOk(Reader)
    \/ Reply

SpecE2E == InitE2E /\ [][NextE2E]_vars

\* The reader alone, a catalog that grows by books of one genre, a store that
\* does not fail, and the list refreshed while it is on display.
NextRefresh ==
    \/ AddBook(FantasySource)
    \/ \E b \in 1..MaxShelf : \E r \in RatingInputs(Reader) : RateCallback(Reader, b, r)
    \/ \E b \in 1..MaxShelf : ConfirmRemove(Reader, b)
    \/ RecommendOk(Reader)
    \/ Refresh(Reader)
    \/ Reply

SpecRefresh == Init /\ [][NextRefresh]_vars

\* The preferred-genre selection applied to given aggregates.
SelGenres == {FA, DR, HI, EPIC_FA}

\* avg_rating and count of a given aggregate: 4.0, 4.5, 5.0, 6.0 and 8.0.
SelAverages ==
    {[num |-> 4, den |-> 1], [num |-> 9, den |-> 2], [num |-> 5, den |-> 1],
     [num |-> 6, den |-> 1], [num |-> 8, den |-> 1]}

\* Every list of aggregates with distinct genres (the store's rows are those
\* of them that are in its ORDER BY order).
RECURSIVE AggregateLists(_)
AggregateLists(genres) ==
    {<<>>} \cup
    UNION {{<<[genre |-> g, avg_rating |-> a, count |-> a.den]>> \o rest :
               a \in SelAverages, rest \in AggregateLists(genres \ {g})} : g \in genres}

InitGenres ==
    /\ books = <<>>
    /\ user_books = {}
    /\ rec = NoRec
    /\ sel \in {[NoSel EXCEPT !.aggregates = l] : l \in AggregateLists(SelGenres)}
    /\ NoDialogue

\* preferred_genres, as _get_genre_based_recommendations computes it from
\* user_genres.
SelectPreferred ==
    /\ ~sel.done
    /\ sel' = [sel EXCEPT !.preferred = PreferredGenres(sel.aggregates), !.done = TRUE]
    /\ UNCHANGED <<books, user_books, rec, user_states, user_data, reply, clock>>

NextGenres == SelectPreferred

SpecGenres == InitGenres /\ [][NextGenres]_vars

(***************************************************************************)
(* The strategies called one by one on a larger catalog, the library       *)
(* written through add_book_to_user_library directly                       *)
(***************************************************************************)
\* A catalog of twelve books: eleven with a description, six whose genre
\* matches fa, one without a genre.
StoreCatalog ==
    << Row(<<"b", "1">>, ANN, FA, MAGIC \o SP \o RING),
       Row(<<"b", "2">>, BOB, DR, MAGIC \o SP \o WAR),
       Row(<<"b", "3">>, ANN, HI, WAR),
       Row(<<"b", "4">>, BOB, EPIC_FA, <<"t", "h", "e">> \o SP \o MAGIC \o SP \o RING),
       Row(<<"b", "5">>, ANN, NULL, RING \o SP \o <<"o", "f">> \o SP \o WAR),
       Row(<<"b", "6">>, BOB, FA, RING),
       Row(<<"b", "7">>, ANN, FA, MAGIC),
       Row(<<"b", "8">>, BOB, FA, WAR \o SP \o RING),
       Row(<<"b", "9">>, ANN, FA, MAGIC \o SP \o MAGIC \o SP \o RING),
       Row(<<"b", "1", "0">>, BOB, DR, RING \o SP \o WAR),
       Row(<<"b", "1", "1">>, ANN, HI, MAGIC \o SP \o WAR \o SP \o RING),
       Row(<<"b", "1", "2">>, BOB, FA, NULL) >>

\* add_book_to_user_library's rating argument: None (its default), 4, 5.
StoreRatings == {NoRating, 4, 5}

\* add_book_to_user_library(user_id, book_id, rating), called as the store
\* offers it.
AddEntry(u, b, r) ==
    /\ Idle
    /\ b \in BookIds
    /\ check_book_in_user_library(u, b) \/ Cardinality(Owned(u)) < MaxLibrary + 1
    /\ add_book_to_user_library(u, b, r)
    /\ UNCHANGED <<books, rec, sel, user_states, user_data, reply, clock>>

\* _get_genre_based_recommendations(user_id), called alone.
GenreStrategy(u) ==
    /\ Idle
    /\ \E g \in _get_genre_based_recommendations(u, {}) :
          rec' = [NoRec EXCEPT !.user = u, !.library = Owned(u), !.path = "genre",
                               !.preferred = PreferredGenres(get_user_genres_and_ratings(u)),
                               !.genre_recs = g.rows]
    /\ UNCHANGED <<books, user_books, sel, user_states, user_data, reply, clock>>

\* _get_content_based_recommendations(user_id), called alone, its doubles
\* rounding as they may.
ContentStrategy(u) ==
    /\ Idle
    /\ \E c \in _get_content_based_recommendations(u, {"round_up"}) :
          rec' = [NoRec EXCEPT !.user = u, !.library = Owned(u), !.path = "content",
                               !.hit = c.hit, !.content_recs = c.rows]
    /\ UNCHANGED <<books, user_books, sel, user_states, user_data, reply, clock>>

\* _get_popular_books(), called alone.
PopularList ==
    /\ Idle
    /\ \E p \in _get_popular_books({}) :
          rec' = [NoRec EXCEPT !.user = Reader, !.library = Owned(Reader),
                               !.path = "popular", !.popular = p.rows]
    /\ UNCHANGED <<books, user_books, sel, user_states, user_data, reply, clock>>

InitStore ==
    /\ books = StoreCatalog
    /\ user_books = {}
    /\ rec = NoRec
    /\ sel = NoSel
    /\ NoDialogue

NextStore ==
    \/ \E b \in 1..(MaxShelf + 2) : \E r \in StoreRatings : AddEntry(Reader, b, r)
    \/ \E b \in 1..(MaxShelf + 2) : ConfirmRemove(Reader, b)
    \/ GenreStrategy(Reader)
    \/ ContentStrategy(Reader)
    \/ PopularList
    \/ Reply

SpecStore == InitStore /\ [][NextStore]_vars

(***************************************************************************)
(* get_recommendations step by step, with requests coming in meanwhile     *)
(***************************************************************************)
\* The requests that change a library: rate_<book>_<rating>,
\* confirm_remove_<book>.
Requests(u) ==
    {[user |-> u, data |-> "rate", book |-> b, rating |-> r] :
        b \in 1..MaxShelf, r \in {4, 8}}
    \cup {[user |-> u, data |-> "confirm_remove", book |-> b, rating |-> NoRating] :
             b \in 1..MaxShelf}

\* user_books = get_user_books(user_id), the first statement of
\* get_recommendations.
BeginCall(u) ==
    /\ Idle
    /\ rec' = [NoRec EXCEPT !.user = u, !.path = "reading", !.read = get_user_books(u)]
    /\ UNCHANGED <<books, user_books, sel, user_states, user_data, reply, clock>>

\* An update comes in while the call runs: it waits in the application's
\* queue.
Arrive(q) ==
    /\ rec.path = "reading"
    /\ rec.waiting = {}
    /\ rec' = [rec EXCEPT !.waiting = {q}]
    /\ UNCHANGED <<books, user_books, sel, user_states, user_data, reply, clock>>

\* The rest of get_recommendations.
EndCall ==
    /\ rec.path = "reading"
    /\ \E tried \in TryFrom(rec.read, rec.user, {}) :
          IF tried.raised
          THEN \E handled \in ExceptBlock(tried, {}) :
                  rec' = [handled EXCEPT !.waiting = rec.waiting]
          ELSE rec' = [tried EXCEPT !.waiting = rec.waiting]
    /\ UNCHANGED <<books, user_books, sel, user_states, user_data, reply, clock>>

\* The catalog holds the first books of CatalogSource.
InitSnapshot ==
    /\ books = Cut(CatalogSource, MaxBooks)
    /\ user_books = {}
    /\ rec = NoRec
    /\ sel = NoSel
    /\ NoDialogue

NextSnapshot ==
    \/ \E q \in Requests(Reader) :
          q.data = "rate" /\ RateCallback(q.user, q.book, q.rating)
    \/ \E q \in Requests(Reader) :
          q.data = "confirm_remove" /\ ConfirmRemove(q.user, q.book)
    \/ BeginCall(Reader)
    \/ \E q \in Requests(Reader) : Arrive(q)
    \/ EndCall
    \/ Reply

SpecSnapshot == InitSnapshot /\ [][NextSnapshot]_vars

(***************************************************************************)
(* _remove_duplicates applied to lists of records                          *)
(***************************************************************************)
\* The longest list given to _remove_duplicates.
MaxList == 4

\* Records as the strategies build them: a book id of the store (ids start
\* at 1) tagged by the genre strategy, or tagged and scored by the content
\* strategy.
DedupRecords ==
    {[id |-> b, recommendation_type |-> "genre_based", similarity_score |-> NoScore] :
        b \in 1..3}
    \cup
    {[id |-> b, recommendation_type |-> "content_based", similarity_score |-> 600 * b] :
        b \in 1..3}

RecordLists == UNION {[1..n -> DedupRecords] : n \in 0..MaxList}

InitDedup ==
    /\ books = <<>>
    /\ user_books = {}
    /\ rec = NoRec
    /\ sel \in {[NoSel EXCEPT !.list = l] : l \in RecordLists}
    /\ NoDialogue

\* unique = _remove_duplicates(list), then _remove_duplicates(unique).
RemoveDuplicates ==
    /\ ~sel.done
    /\ LET unique_books == _remove_duplicates(sel.list)
       IN  sel' = [sel EXCEPT !.once = unique_books,
                              !.twice = _remove_duplicates(unique_books),
                              !.done = TRUE]
    /\ UNCHANGED <<books, user_books, rec, user_states, user_data, reply, clock>>

NextDedup == RemoveDuplicates

SpecDedup == InitDedup /\ [][NextDedup]_vars

(***************************************************************************)
(* What the dialogues convert: str.strip, int(), str(), json.dumps and     *)
(* json.loads, the validators (utils/validators.py)                        *)
(***************************************************************************)
\* text.strip(); the whitespace of the model's texts is the space.
RECURSIVE LStrip(_)
LStrip(s) == IF s # <<>> /\ Head(s) = " " THEN LStrip(Tail(s)) ELSE s

RECURSIVE RStrip(_)
RStrip(s) ==
    IF s # <<>> /\ s[Len(s)] = " " THEN RStrip(SubSeq(s, 1, Len(s) - 1)) ELSE s

Strip(s) == RStrip(LStrip(s))

Digits == <<"0", "1", "2", "3", "4", "5", "6", "7", "8", "9">>

IsDigit(c) == \E i \in DOMAIN Digits : Digits[i] = c

DigitValue(c) == (CHOOSE i \in DOMAIN Digits : Digits[i] = c) - 1

\* The literals int() reads, after the sign: digits, with single underscores
\* between digits.
IsIntLiteral(s) ==
    /\ s # <<>>
    /\ IsDigit(s[1])
    /\ IsDigit(s[Len(s)])
    /\ \A i \in DOMAIN s :
          \/ IsDigit(s[i])
          \/ s[i] = "_" /\ IsDigit(s[i - 1]) /\ IsDigit(s[i + 1])

RECURSIVE DecimalValue(_)
DecimalValue(s) ==
    IF s = <<>> THEN 0
    ELSE LET front == SubSeq(s, 1, Len(s) - 1)
         IN  IF s[Len(s)] = "_" THEN DecimalValue(front)
             ELSE 10 * DecimalValue(front) + DigitValue(s[Len(s)])

\* int(text): the value, or raised when int() raises ValueError.
int(text) ==
    LET t == Strip(text)
        signed == t # <<>> /\ Head(t) \in {"+", "-"}
        body == IF signed THEN Tail(t) ELSE t
    IN  IF ~IsIntLiteral(body) THEN [raised |-> TRUE, value |-> 0]
        ELSE [raised |-> FALSE,
              value |-> IF signed /\ Head(t) = "-" THEN 0 - DecimalValue(body)
                        ELSE DecimalValue(body)]

\* str(n) of an integer
RECURSIVE str(_)
str(n) ==
    IF n < 0 THEN <<"-">> \o str(0 - n)
    ELSE IF n < 10 THEN <<Digits[n + 1]>>
    ELSE str(n \div 10) \o <<Digits[(n % 10) + 1]>>

\* A validation that takes every integer for a rating.
AnyInteger(text) ==
    IF int(Strip(text)).raised THEN NoRating ELSE int(Strip(text)).value

\* validate_rating(text): the rating, or None (NoRating).
validate_rating(text) ==
    LET rating == int(Strip(text))
    IN  IF rating.raised THEN NoRating
        ELSE IF MinRating <= rating.value /\ rating.value <= MaxRating
             THEN rating.value
        ELSE NoRating

\* validate_text_length(text, max_length=...), min_length at its default 1.
validate_text_length(text, max_length) ==
    /\ text # <<>>
    /\ 1 <= Len(Strip(text))
    /\ Len(Strip(text)) <= max_length

\* JSON values of the state data: a string, or a dict as the list of its
\* items in insertion order.
StrValue(s) == [kind |-> "str", str |-> s, items |-> <<>>]
DictValue(items) == [kind |-> "dict", str |-> <<>>, items |-> items]
Item(key, value) == [key |-> key, value |-> value]

Quote == "\""
Backslash == "\\"

\* An encoder that escapes nothing.
Verbatim(s) == s

\* json.dumps of a str: in quotes, the quote and the backslash escaped.
RECURSIVE Escaped(_)
Escaped(s) ==
    IF s = <<>> THEN <<>>
    ELSE (IF Head(s) \in {Quote, Backslash} THEN <<Backslash, Head(s)>>
          ELSE <<Head(s)>>) \o Escaped(Tail(s))

DumpStr(s) == <<Quote>> \o Escaped(s) \o <<Quote>>

\* json.dumps(value), with the default separators ', ' and ': '.
RECURSIVE dumps(_), DumpItems(_)
DumpItems(items) ==
    IF items = <<>> THEN <<>>
    ELSE DumpStr(items[1].key) \o <<":", " ">> \o dumps(items[1].value)
         \o (IF Len(items) = 1 THEN <<>>
             ELSE <<",", " ">> \o DumpItems(Tail(items)))

dumps(value) ==
    IF value.kind = "str" THEN DumpStr(value.str)
    ELSE <<"{">> \o DumpItems(value.items) \o <<"}">>

\* The decoder's position after the whitespace at i.
RECURSIVE SkipSpaces(_, _)
SkipSpaces(s, i) ==
    IF i <= Len(s) /\ s[i] = " " THEN SkipSpaces(s, i + 1) ELSE i

\* The closing quote of the string whose first character is at i, 0 if the
\* string does not end or holds an escape the model's encoder never writes.
RECURSIVE StrEnd(_, _)
StrEnd(s, i) ==
    IF i > Len(s) THEN 0
    ELSE IF s[i] = Quote THEN i
    ELSE IF s[i] = Backslash
         THEN IF i < Len(s) /\ s[i + 1] \in {Quote, Backslash}
              THEN StrEnd(s, i + 2) ELSE 0
    ELSE StrEnd(s, i + 1)

RECURSIVE Unescaped(_)
Unescaped(s) ==
    IF s = <<>> THEN <<>>
    ELSE IF Head(s) = Backslash THEN <<s[2]>> \o Unescaped(Tail(Tail(s)))
    ELSE <<Head(s)>> \o Unescaped(Tail(s))

DecodeError == [ok |-> FALSE, value |-> StrValue(<<>>), next |-> 0]

\* The JSON string that opens at i, end being its closing quote.
StrUpTo(s, i, end) ==
    IF end = 0 THEN DecodeError
    ELSE [ok |-> TRUE, value |-> StrValue(Unescaped(SubSeq(s, i + 1, end - 1))),
          next |-> end + 1]

ParseStr(s, i) ==
    IF i > Len(s) THEN DecodeError
    ELSE IF s[i] # Quote THEN DecodeError
    ELSE StrUpTo(s, i, StrEnd(s, i + 1))

\* The JSON value at i: a string or an object.  ParseMembers reads the
\* members of an object from i on, items being those read so far: the key,
\* the colon, the value, then a comma or the closing brace.
RECURSIVE ParseValue(_, _), ParseMembers(_, _, _)
AfterMember(s, after, read) ==
    IF after > Len(s) THEN DecodeError
    ELSE IF s[after] = "}"
         THEN [ok |-> TRUE, value |-> DictValue(read), next |-> after + 1]
    ELSE IF s[after] = "," THEN ParseMembers(s, after + 1, read)
    ELSE DecodeError

WithMember(s, key, member, items) ==
    IF ~member.ok THEN DecodeError
    ELSE AfterMember(s, SkipSpaces(s, member.next),
                     Append(items, Item(key.value.str, member.value)))

AfterKey(s, key, colon, items) ==
    IF ~key.ok \/ colon > Len(s) THEN DecodeError
    ELSE IF s[colon] # ":" THEN DecodeError
    ELSE WithMember(s, key, ParseValue(s, SkipSpaces(s, colon + 1)), items)

WithKey(s, key, items) ==
    AfterKey(s, key, IF key.ok THEN SkipSpaces(s, key.next) ELSE 0, items)

ParseMembers(s, i, items) == WithKey(s, ParseStr(s, SkipSpaces(s, i)), items)

ParseValue(s, i) ==
    IF i > Len(s) THEN DecodeError
    ELSE IF s[i] = Quote THEN ParseStr(s, i)
    ELSE IF s[i] = "{"
         THEN IF SkipSpaces(s, i + 1) <= Len(s) /\ s[SkipSpaces(s, i + 1)] = "}"
              THEN [ok |-> TRUE, value |-> DictValue(<<>>),
                    next |-> SkipSpaces(s, i + 1) + 1]
              ELSE ParseMembers(s, SkipSpaces(s, i + 1), <<>>)
    ELSE DecodeError

\* The decoder's result when all of data is read.
Decoded(data, parsed) ==
    IF parsed.ok /\ SkipSpaces(data, parsed.next) > Len(data)
    THEN [raised |-> FALSE, value |-> parsed.value]
    ELSE [raised |-> TRUE, value |-> StrValue(<<>>)]

\* json.loads(data): the value, or raised when it raises JSONDecodeError.
loads(data) == Decoded(data, ParseValue(data, SkipSpaces(data, 1)))

\* dict.get(key, default)
RECURSIVE Get(_, _, _)
Get(items, key, default) ==
    IF items = <<>> THEN default
    ELSE IF items[1].key = key THEN items[1].value
    ELSE Get(Tail(items), key, default)

\* dict[key] = value
Put(items, key, value) ==
    IF \E i \in DOMAIN items : items[i].key = key
    THEN [i \in DOMAIN items |->
             IF items[i].key = key THEN Item(key, value) ELSE items[i]]
    ELSE Append(items, Item(key, value))

(***************************************************************************)
(* database/db.py: the dialogue states and the search in the catalog       *)
(***************************************************************************)
\* get_user_state(user_id)
get_user_state(u) == user_states[u]

\* set_user_state(user_id, state, data): INSERT OR REPLACE
set_user_state(u, state, data) ==
    user_states' = [user_states EXCEPT ![u] = [state |-> state, data |-> data]]

\* A clear_user_state that deletes no row.
KeepState(u) == UNCHANGED user_states

\* A clear_user_state whose DELETE has no WHERE.
ClearAll(u) == user_states' = [v \in Users |-> NoState]

\* clear_user_state(user_id): DELETE
clear_user_state(u) == user_states' = [user_states EXCEPT ![u] = NoState]

\* The first n ids, from row i on, of the catalog rows whose title, author or
\* genre is LIKE %pattern%.
RECURSIVE Matching(_, _, _)
Matching(pattern, i, n) ==
    IF i > Len(books) \/ n = 0 THEN <<>>
    ELSE IF \/ Like(books[i].title, pattern)
            \/ Like(books[i].author, pattern)
            \/ ~IsNull(books[i].genre) /\ Like(books[i].genre, pattern)
         THEN <<i>> \o Matching(pattern, i + 1, n - 1)
    ELSE Matching(pattern, i + 1, n)

\* search_books_in_db(query, limit): title, author or genre LIKE %query%,
\* the rows in rowid order.
search_books_in_db(query, limit) ==
    Matching(<<"%">> \o query \o <<"%">>, 1, limit)

(***************************************************************************)
(* services/book_sources.py and bot/keyboards.py                           *)
(***************************************************************************)
\* A search hit as the sources format it.
Hit(t, a, g, d, k) ==
    [title |-> t, author |-> a, genre |-> g, description |-> d, external_id |-> k]

\* BookSourceManager.active_sources
ActiveSources == <<"openlibrary", "googlebooks">>

\* BookSourceManager.search_in_source(source_id, query, limit); found is what
\* each source has for the query.
search_in_source(found, source_id, limit) ==
    IF source_id \notin DOMAIN found THEN <<>> ELSE Cut(found[source_id], limit)

\* search_in_all_sources(query, limit_per_source), its lists extended into
\* one by the handler.
RECURSIVE InAllSources(_, _, _)
InAllSources(found, sources, limit_per_source) ==
    IF sources = <<>> THEN <<>>
    ELSE search_in_source(found, Head(sources), limit_per_source)
         \o InAllSources(found, Tail(sources), limit_per_source)

search_in_all_sources(found, limit_per_source) ==
    InAllSources(found, ActiveSources, limit_per_source)

\* A Python argument: an int, a str, or one the call does not pass.
StrArg(s) == [type |-> "str", int |-> 0, str |-> s]
Missing == [type |-> "missing", int |-> 0, str |-> "none"]

\* A button: its callback data.
Button(data, page, idx, id) == [data |-> data, page |-> page, idx |-> idx, id |-> id]

\* get_search_results_keyboard(books, page, total_pages, source): one button
\* for each book, then the navigation row.  It raises TypeError when
\* total_pages is not passed, or is a str (total_pages - 1).
get_search_results_keyboard(books_, page, total_pages, source) ==
    LET keyboard == [idx \in 1..Len(books_) |->
                        IF source = "openlibrary"
                        THEN Button("ol_book", page, idx - 1, <<>>)
                        ELSE Button("db_book", 0, 0, books_[idx].external_id)]
        back == IF page > 0 THEN <<Button("search_page", page - 1, 0, <<>>)>>
                ELSE <<>>
    IN  IF total_pages.type # "int"
        THEN [raised |-> TRUE, keyboard |-> <<>>]
        ELSE [raised |-> FALSE,
              keyboard |-> keyboard \o back
                           \o (IF page < total_pages.int - 1
                               THEN <<Button("search_page", page + 1, 0, <<>>)>>
                               ELSE <<>>)]

\* get_rating_keyboard(book_id): rate_<book_id>_<i> for i in 1..10
get_rating_keyboard(book_id) ==
    [i \in MinRating..MaxRating |-> Button("rate", 0, i, str(book_id))]

(***************************************************************************)
(* bot/handlers.py: the dialogues                                          *)
(***************************************************************************)
\* A handler's answer: to whom, to which update, the message, the book id it
\* is about (0 when none) and the buttons under it.
Sent(u, update, text, book, keyboard) ==
    [user |-> u, update |-> update, text |-> text, book |-> book,
     keyboard |-> keyboard]

\* The keys and steps of the manual dialogue's state data.
STEP == <<"s", "t", "e", "p">>
DATA == <<"d", "a", "t", "a">>
TITLE == <<"t", "i", "t", "l", "e">>
AUTHOR == <<"a", "u", "t", "h", "o", "r">>
GENRE == <<"g", "e", "n", "r", "e">>
DESCRIPTION == <<"d", "e", "s", "c", "r", "i", "p", "t", "i", "o", "n">>
RATING == <<"r", "a", "t", "i", "n", "g">>

\* None as the value dict.get returns for a key that is not there.
NoneValue == [kind |-> "none", str |-> <<>>, items |-> <<>>]

\* {'step': step, 'data': book_data}
StateData(step, book_data) ==
    DictValue(<<Item(STEP, StrValue(step)), Item(DATA, DictValue(book_data))>>)

\* The limits the manual dialogue passes to validate_text_length.
MaxTitle == 200
MaxAuthor == 100
MaxGenre == 50
MaxDescription == 1000

\* handle_search_query(update, context, query); found is what the sources
\* have for the query.  The keyboard is built with selected_source in the
\* place of total_pages.
handle_search_query(u, update, query, found) ==
    LET selected_source == IF user_data[u].selected_source = "none"
                           THEN "openlibrary" ELSE user_data[u].selected_source
        local_books == search_books_in_db(query, 3)
        external_books == IF selected_source = "all"
                          THEN search_in_all_sources(found, 3)
                          ELSE search_in_source(found, selected_source, 5)
        markup == get_search_results_keyboard(external_books, 0,
                                              StrArg(selected_source), "openlibrary")
    IN  /\ clear_user_state(u)
        /\ IF local_books = <<>> /\ external_books = <<>>
           THEN /\ reply' = Sent(u, update, "search_no_results", 0, <<>>)
                /\ UNCHANGED user_data
           ELSE /\ user_data' = [user_data EXCEPT
                                    ![u].search_results = external_books,
                                    ![u].local_results = local_books,
                                    ![u].search_query = query]
                /\ reply' = IF external_books = <<>>
                            THEN Sent(u, update, "search_results", 0, <<>>)
                            ELSE IF markup.raised
                            THEN Sent(u, update, "error", 0, <<>>)
                            ELSE Sent(u, update, "search_results", 0, markup.keyboard)
        /\ UNCHANGED <<books, user_books>>

\* One of the steps title, author, genre, description of
\* handle_manual_book_data.
ManualStep(u, update, text, book_data, key, max_length, next, too_long, ask) ==
    IF ~validate_text_length(text, max_length)
    THEN /\ reply' = Sent(u, update, too_long, 0, <<>>)
         /\ UNCHANGED <<books, user_books, user_states, user_data>>
    ELSE /\ set_user_state(u, "adding_manual_book",
                           dumps(StateData(next, Put(book_data, key, StrValue(text)))))
         /\ reply' = Sent(u, update, ask, 0, <<>>)
         /\ UNCHANGED <<books, user_books, user_data>>

\* The step rating of handle_manual_book_data.  A key that is missing in
\* book_data raises KeyError, a rating the store refuses raises after the
\* book was added to the catalog.
RatingStep(u, update, text, book_data) ==
    LET rating == validate_rating(text)
        keys == {book_data[i].key : i \in DOMAIN book_data}
        row == Row(Get(book_data, TITLE, NoneValue).str,
                   Get(book_data, AUTHOR, NoneValue).str,
                   Get(book_data, GENRE, NoneValue).str,
                   Get(book_data, DESCRIPTION, NoneValue).str)
        book_id == AddedBookId(row)
    IN  IF rating = NoRating
        THEN /\ reply' = Sent(u, update, "invalid_rating", 0, <<>>)
             /\ UNCHANGED <<books, user_books, user_states, user_data>>
        ELSE IF ~({TITLE, AUTHOR, GENRE, DESCRIPTION} \subseteq keys)
        THEN /\ reply' = Sent(u, update, "error", 0, <<>>)
             /\ UNCHANGED <<books, user_books, user_states, user_data>>
        ELSE IF ~RatingCheck(rating)
        THEN /\ add_book_to_global(row)
             /\ reply' = Sent(u, update, "error", 0, <<>>)
             /\ UNCHANGED <<user_books, user_states, user_data>>
        ELSE /\ add_book_to_global(row)
             /\ add_book_to_user_library(u, book_id, rating)
             /\ clear_user_state(u)
             /\ reply' = Sent(u, update, "book_added", book_id, <<>>)
             /\ UNCHANGED user_data

\* handle_manual_book_data from step = state_data.get('step') on.
ManualSteps(u, update, text, step, book_data) ==
    IF book_data.kind # "dict"
    THEN /\ reply' = Sent(u, update, "error", 0, <<>>)
         /\ UNCHANGED <<books, user_books, user_states, user_data>>
    ELSE IF step = StrValue(TITLE)
    THEN ManualStep(u, update, text, book_data.items, TITLE, MaxTitle,
                    AUTHOR, "title_too_long", "enter_author")
    ELSE IF step = StrValue(AUTHOR)
    THEN ManualStep(u, update, text, book_data.items, AUTHOR, MaxAuthor,
                    GENRE, "author_too_long", "enter_genre")
    ELSE IF step = StrValue(GENRE)
    THEN ManualStep(u, update, text, book_data.items, GENRE, MaxGenre,
                    DESCRIPTION, "genre_too_long", "enter_description")
    ELSE IF step = StrValue(DESCRIPTION)
    THEN ManualStep(u, update, text, book_data.items, DESCRIPTION,
                    MaxDescription, RATING, "description_too_long", "enter_rating")
    ELSE IF step = StrValue(RATING)
    THEN RatingStep(u, update, text, book_data.items)
    ELSE UNCHANGED <<books, user_books, user_states, user_data, reply>>

\* handle_manual_book_data once the state data are decoded.  (A value that
\* is no dict has no get: AttributeError.)
WithStateData(u, update, text, state_data) ==
    IF state_data.kind # "dict"
    THEN /\ reply' = Sent(u, update, "error", 0, <<>>)
         /\ UNCHANGED <<books, user_books, user_states, user_data>>
    ELSE ManualSteps(u, update, text, Get(state_data.items, STEP, NoneValue),
                     Get(state_data.items, DATA, DictValue(<<>>)))

\* try: state_data = json.loads(data)
\* except json.JSONDecodeError: state_data = {'step': 'title', 'data': {}}
LoadedOr(loaded, default) == IF loaded.raised THEN default ELSE loaded.value

\* handle_manual_book_data(update, context, text, data)
handle_manual_book_data(u, update, text, data) ==
    IF ~Truthy(data)
    THEN /\ set_user_state(u, "adding_manual_book", dumps(StateData(TITLE, <<>>)))
         /\ reply' = Sent(u, update, "enter_title", 0, <<>>)
         /\ UNCHANGED <<books, user_books, user_data>>
    ELSE WithStateData(u, update, text,
                       LoadedOr(loads(data), StateData(TITLE, <<>>)))

\* handle_rating_input(update, context, text, data)
handle_rating_input(u, update, text, data) ==
    LET rating == validate_rating(text)
        book_id == int(data)
    IN  IF rating = NoRating
        THEN /\ reply' = Sent(u, update, "invalid_rating", 0, <<>>)
             /\ UNCHANGED <<books, user_books, user_states, user_data>>
        ELSE IF \/ IsNull(data)
                \/ book_id.raised
                \/ check_book_in_user_library(u, book_id.value) /\ ~RatingCheck(rating)
        THEN /\ reply' = Sent(u, update, "error", 0, <<>>)
             /\ UNCHANGED <<books, user_books, user_states, user_data>>
        ELSE /\ update_user_book_rating(u, book_id.value, rating)
             /\ clear_user_state(u)
             /\ reply' = Sent(u, update, "book_updated", book_id.value, <<>>)
             /\ UNCHANGED <<books, user_data>>

\* handle_text_message; raw is the text of the message, found what the
\* sources have for it as a query.
TextMessage(u, raw, found) ==
    /\ Idle
    /\ LET text == Strip(raw)
           update == Update("text", "none", 0, 0, raw)
           state == get_user_state(u).state
           data == get_user_state(u).data
       IN  IF state = "waiting_search_query"
           THEN handle_search_query(u, update, text, found)
           ELSE IF state = "adding_manual_book"
           THEN handle_manual_book_data(u, update, text, data)
           ELSE IF state = "waiting_rating"
           THEN handle_rating_input(u, update, text, data)
           ELSE /\ reply' = Sent(u, update, "main_menu", 0, <<>>)
                /\ UNCHANGED <<books, user_books, user_states, user_data>>
    /\ UNCHANGED <<rec, sel, clock>>

\* search_books_command (/search) and the callback search_books
SearchBooks(u, kind) ==
    /\ Idle
    /\ set_user_state(u, "waiting_search_query", NULL)
    /\ reply' = Sent(u, Update(kind, "search_books", 0, 0, <<>>),
                     "enter_search_query", 0, <<>>)
    /\ UNCHANGED <<books, user_books, rec, sel, user_data, clock>>

\* handle_callback_query, data = source_<source_type>
SourceCallback(u, source_type) ==
    /\ Idle
    /\ user_data' = [user_data EXCEPT ![u].selected_source = source_type]
    /\ set_user_state(u, "waiting_search_query", NULL)
    /\ reply' = Sent(u, Update("callback", "source", 0, 0, <<>>),
                     "enter_search_query", 0, <<>>)
    /\ UNCHANGED <<books, user_books, rec, sel, clock>>

\* cancel_command (/cancel) and the callback cancel
Cancel(u, kind) ==
    /\ Idle
    /\ clear_user_state(u)
    /\ reply' = Sent(u, Update(kind, "cancel", 0, 0, <<>>), "cancel", 0, <<>>)
    /\ UNCHANGED <<books, user_books, rec, sel, user_data, clock>>

\* handle_callback_query, data = add_manual: clear_user_state, then
\* set_user_state.
AddManual(u) ==
    /\ Idle
    /\ set_user_state(u, "adding_manual_book", dumps(StateData(TITLE, <<>>)))
    /\ reply' = Sent(u, Update("callback", "add_manual", 0, 0, <<>>),
                     "enter_title", 0, <<>>)
    /\ UNCHANGED <<books, user_books, rec, sel, user_data, clock>>

\* handle_callback_query, data = add_to_library_<book>
AddToLibrary(u, b) ==
    /\ Idle
    /\ LET update == Update("callback", "add_to_library", b, 0, <<>>)
       IN  IF check_book_in_user_library(u, b)
           THEN /\ reply' = Sent(u, update, "already_in_library", b, <<>>)
                /\ UNCHANGED user_states
           ELSE /\ set_user_state(u, "waiting_rating", str(b))
                /\ reply' = Sent(u, update, "enter_rating", b, <<>>)
    /\ UNCHANGED <<books, user_books, rec, sel, user_data, clock>>

\* handle_callback_query, data = rate_<book>_<rating>, with the message it
\* answers.  A rating the CHECK constraint refuses raises in the store; the
\* handler catches it.
Rate(u, b, r) ==
    /\ Idle
    /\ LET update == Update("callback", "rate", b, r, <<>>)
       IN  IF ~RatingCheck(r)
           THEN /\ reply' = Sent(u, update, "error", b, <<>>)
                /\ UNCHANGED user_books
           ELSE IF ~check_book_in_user_library(u, b)
           THEN /\ add_book_to_user_library(u, b, r)
                /\ reply' = Sent(u, update, "book_added", b, <<>>)
           ELSE /\ update_user_book_rating(u, b, r)
                /\ reply' = Sent(u, update, "book_updated", b, <<>>)
    /\ UNCHANGED <<books, rec, sel, user_states, user_data, clock>>

\* handle_callback_query, data = confirm_remove_<book>, with the message it
\* answers.
Remove(u, b) ==
    /\ Idle
    /\ remove_book_from_user_library(u, b)
    /\ reply' = Sent(u, Update("callback", "confirm_remove", b, 0, <<>>),
                     "book_deleted", b, <<>>)
    /\ UNCHANGED <<books, rec, sel, user_states, user_data, clock>>

\* The row add_book_to_global is given for a search hit.
HitRow(hit) ==
    [Row(hit.title, hit.author, hit.genre, hit.description)
        EXCEPT !.openlibrary_id = hit.external_id]

\* handle_callback_query, data = ol_book_<page>_<book_index>
OlBook(u, page, book_index) ==
    /\ Idle
    /\ LET update == Update("callback", "ol_book", book_index, page, <<>>)
           search_results == user_data[u].search_results
       IN  IF book_index >= Len(search_results)
           THEN /\ reply' = Sent(u, update, "not_found", 0, <<>>)
                /\ UNCHANGED books
           ELSE LET selected_book == search_results[book_index + 1]
                    book_id == AddedBookId(HitRow(selected_book))
                IN  /\ add_book_to_global(HitRow(selected_book))
                    /\ reply' = IF check_book_in_user_library(u, book_id)
                                THEN Sent(u, update, "already_in_library", book_id, <<>>)
                                ELSE Sent(u, update, "choose_rating", book_id,
                                          get_rating_keyboard(book_id))
    /\ UNCHANGED <<user_books, rec, sel, user_states, user_data, clock>>

\* page_size of the branch search_page_: the rows of a page of results.
PageSize == 5

\* handle_callback_query, data = search_page_<page>: the keyboard is built
\* without total_pages.
SearchPage(u, p) ==
    /\ Idle
    /\ LET all_books == user_data[u].search_results
           page_size == PageSize
           total_pages == (Len(all_books) + page_size - 1) \div page_size
           page == IF Min(p, total_pages - 1) < 0 THEN 0 ELSE Min(p, total_pages - 1)
           page_books == SubSeq(all_books, page * page_size + 1,
                                Min(page * page_size + page_size, Len(all_books)))
           source == IF user_data[u].selected_source = "none" THEN "openlibrary"
                     ELSE user_data[u].selected_source
           markup == get_search_results_keyboard(page_books, page, Missing, source)
           update == Update("callback", "search_page", 0, p, <<>>)
       IN  reply' = IF markup.raised THEN Sent(u, update, "error", 0, <<>>)
                    ELSE Sent(u, update, "search_results", 0, markup.keyboard)
    /\ UNCHANGED <<books, user_books, rec, sel, user_states, user_data, clock>>

\* The latest CURRENT_TIMESTAMP of the model.
MaxClock == 1

\* Time passes in the store.
Tick ==
    /\ Idle
    /\ clock < MaxClock
    /\ clock' = clock + 1
    /\ UNCHANGED <<books, user_books, rec, sel, user_states, user_data, reply>>

(***************************************************************************)
(* The chats in dialogue: manual adding, typed and pressed ratings,        *)
(* removing, searching the catalog, cancelling                             *)
(***************************************************************************)
\* Catalog rows at most, the two the catalog starts with included.
MaxChatBooks == 3
\* The catalog ids (1..MaxChatShelf) the buttons of the dialogues carry.
MaxChatShelf == 1
\* The catalog ids (1..MaxRateShelf) the buttons carry while time passes.
MaxRateShelf == 2
\* The books the catalog of the dialogues starts with.
ChatCatalog == 2

\* c * n
Repeat(c, n) == [i \in 1..n |-> c]

\* What a user types as a title: it holds a quote and a backslash.
TitleText == <<"a", Quote, "b", Backslash>>
\* A text of 51 characters: too long for a genre only.
LongText == Repeat("m", MaxGenre + 1)

\* The texts a user sends when asked for a field of the book: one the step
\* accepts, one it finds too long.
FieldTexts(step) ==
    IF step = TITLE THEN {TitleText, Repeat("x", MaxTitle + 1)}
    ELSE IF step = AUTHOR THEN {BOB, Repeat("x", MaxAuthor + 1)}
    ELSE IF step = GENRE THEN {FA, LongText}
    ELSE {LongText, Repeat("x", MaxDescription + 1)}

\* The texts a user sends when asked for a rating: 7 is a rating, the
\* others are not.
RatingTexts ==
    { <<"7">>, <<"0">>, <<"1", "1">>, <<"7", ".", "5">>, <<"x">> }

\* The queries a user searches with: b is in the titles of the catalog, zz
\* in no column.
Queries == { <<"b">>, <<"z", "z">> }

\* The step a manual dialogue is at.
StepOf(data) == Get(loads(data).value.items, STEP, NoneValue).str

\* The texts the model lets a user send who is asked for step.
StepTexts(step) == IF step = RATING THEN RatingTexts ELSE FieldTexts(step)

\* The texts the model lets a user send, by the state the dialogue is in.
TextsIn(state) ==
    IF state.state = "waiting_search_query" THEN Queries
    ELSE IF state.state = "waiting_rating" THEN RatingTexts
    ELSE IF state.state = "adding_manual_book" THEN StepTexts(StepOf(state.data))
    ELSE {HI, <<"7">>}

\* The second user sends no text that is too long or stands for no rating,
\* but for a genre of 51 characters.
PlainTexts == {TitleText, BOB, FA, LongText, <<"7">>, HI}

ChatTexts(u) ==
    IF u = Reader THEN TextsIn(get_user_state(u))
    ELSE TextsIn(get_user_state(u)) \cap PlainTexts

\* No source has a hit.
NothingFound == [source \in {"openlibrary", "googlebooks"} |-> <<>>]

\* The second user presses fewer buttons than the first: /cancel, and the
\* rating button 8 of book 1.
Kinds(u) == IF u = Reader THEN {"command", "callback"} ELSE {"command"}

\* The ratings the rating buttons carry: 3 and 8 are ratings, 0 and 11 are
\* outside the CHECK constraint.
ButtonRatings(u) == IF u = Reader THEN {0, 3, 11} ELSE {8}

\* The catalog ids the buttons carry.
ChatShelf(u) == IF u = Reader THEN 1..MaxChatShelf ELSE {1}
RateShelf(u) == IF u = Reader THEN 1..MaxRateShelf ELSE {1}

\* The catalog holds two books, no library an entry, no dialogue has begun.
InitChat ==
    /\ books = Cut(CatalogSource, ChatCatalog)
    /\ user_books = {}
    /\ rec = NoRec
    /\ sel = NoSel
    /\ NoDialogue

NextChat ==
    \/ \E u \in Users : AddManual(u)
    \/ \E u \in Users : \E kind \in Kinds(u) : Cancel(u, kind)
    \/ \E kind \in Kinds(Reader) : SearchBooks(Reader, kind)
    \/ \E u \in Users : \E raw \in ChatTexts(u) :
          TextMessage(u, raw, NothingFound) /\ Len(books') <= MaxChatBooks
    \/ \E b \in ChatShelf(Reader) : AddToLibrary(Reader, b)
    \/ \E u \in Users : \E b \in ChatShelf(u), r \in ButtonRatings(u) : Rate(u, b, r)
    \/ \E b \in ChatShelf(Reader) : Remove(Reader, b)

SpecChat == InitChat /\ [][NextChat]_vars

\* The ratings the rate_ buttons carry there: a second one the CHECK accepts.
RateRatings(u) == ButtonRatings(u) \cup {8}

\* The same chats while time passes in the store, without the typed texts.
NextRate ==
    \/ \E b \in RateShelf(Reader) : AddToLibrary(Reader, b)
    \/ \E u \in Users : \E b \in RateShelf(u), r \in RateRatings(u) : Rate(u, b, r)
    \/ \E b \in RateShelf(Reader) : Remove(Reader, b)
    \/ Tick

SpecRate == InitChat /\ [][NextRate]_vars

(***************************************************************************)
(* get_recommendations called while dialogues are open                     *)
(***************************************************************************)
NextReadOnly ==
    \/ \E q \in Requests(Reader) :
          q.data = "rate" /\ RateCallback(q.user, q.book, q.rating)
    \/ \E q \in Requests(Reader) :
          q.data = "confirm_remove" /\ ConfirmRemove(q.user, q.book)
    \/ \E u \in Users : SearchBooks(u, "command")
    \/ \E u \in Users : Cancel(u, "command")
    \/ Recommend(Reader)
    \/ Reply

SpecReadOnly == InitSnapshot /\ [][NextReadOnly]_vars

(***************************************************************************)
(* The reader searches the sources and selects hits                        *)
(***************************************************************************)
\* Pages of search results the buttons of the model name (0..MaxPage).
MaxPage == 1
\* Positions on a page the buttons of the model name (0..MaxIndex).
MaxIndex == 2

\* What the sources have for the query b: Open Library six hits, of which
\* the second and the third carry no key, Google Books three.
OpenLibraryHits ==
    << Hit(<<"h", "1">>, ANN, FA, MAGIC, <<"k", "1">>),
       Hit(<<"h", "2">>, BOB, DR, RING, <<>>),
       Hit(<<"h", "3">>, ANN, HI, WAR, <<>>),
       Hit(<<"h", "4">>, BOB, FA, MAGIC, <<"k", "4">>),
       Hit(<<"h", "5">>, ANN, DR, RING, <<"k", "5">>),
       Hit(<<"h", "6">>, BOB, HI, WAR, <<"k", "6">>) >>

GoogleBooksHits ==
    << Hit(<<"g", "1">>, ANN, FA, MAGIC, <<"i", "1">>),
       Hit(<<"g", "2">>, BOB, DR, RING, <<"i", "2">>),
       Hit(<<"g", "3">>, ANN, HI, WAR, <<"i", "3">>) >>

\* What the sources have for a query: hits for b, nothing for another.
Found(query) ==
    IF query = <<"b">>
    THEN [source \in {"openlibrary", "googlebooks"} |->
             IF source = "openlibrary" THEN OpenLibraryHits ELSE GoogleBooksHits]
    ELSE NothingFound

\* The sources of the menu the reader searches in.
SourceTypes == {"openlibrary", "all"}

NextSearch ==
    \/ SearchBooks(Reader, "command")
    \/ \E source_type \in SourceTypes : SourceCallback(Reader, source_type)
    \/ \E raw \in ChatTexts(Reader) : TextMessage(Reader, raw, Found(Strip(raw)))
    \/ \E p \in 0..MaxPage : SearchPage(Reader, p)
    \/ \E p \in 0..MaxPage, i \in 0..MaxIndex : OlBook(Reader, p, i)
    \/ \E b \in BookIds : Rate(Reader, b, 8)

SpecSearch == InitChat /\ [][NextSearch]_vars

(***************************************************************************)
(* Properties of get_recommendations                                       *)
(***************************************************************************)
\* A call of get_recommendations has returned and its list is on the way to
\* the chat.
Answered == rec.path # "none"

ResultIds == {rec.result[i].id : i \in DOMAIN rec.result}

Ids(list) == {list[i].id : i \in DOMAIN list}

Tags(list) == {list[i].recommendation_type : i \in DOMAIN list}

Distinct(list) == \A i, j \in DOMAIN list : i # j => list[i].id # list[j].id

\* C1: no list get_recommendations returns contains a book that is in the
\* caller's library at the time of the call, on any path.
C1_Exclusion == Answered => ResultIds \cap Owned(rec.user) = {}

\* C2: every list get_recommendations returns has at most
\* MAX_RECOMMENDATIONS entries, on any path.
C2_SizeBound == Answered => Len(rec.result) <= MAX_RECOMMENDATIONS

\* C3: the ids of a returned list are pairwise distinct.
C3_Unique == Answered => Distinct(rec.result)

\* C3, its case: both strategies proposed the same book, and the book is in
\* the returned list.
C3_Witness ==
    /\ rec.path = "personal"
    /\ \E b \in Ids(rec.genre_recs) \cap Ids(rec.content_recs) : b \in ResultIds

\* C4: get_recommendations never raises to its caller; when its top level
\* fails, what it returns is the outcome of the popularity query (its rows,
\* or nothing when that query fails too).
C4_NeverRaises ==
    Answered =>
        /\ ~rec.raised
        /\ rec.path = "failure" =>
              /\ rec.result = rec.popular
              /\ \/ rec.popular = PopularRows
                 \/ rec.popular = <<>> /\ "popular" \in rec.hit

\* C4, its case: the library read of a user with more than 2 entries failed
\* and the popularity rows came back.
C4_Witness ==
    /\ rec.path = "failure"
    /\ "library" \in rec.hit
    /\ Cardinality(Owned(rec.user)) > 2
    /\ rec.result # <<>>

\* C5: for a user with at most 2 library entries the call runs neither
\* strategy and returns popularity-tagged books only: the rows of the
\* popularity query when no store call fails.
C5_ColdStart ==
    Answered /\ Cardinality(Owned(rec.user)) <= 2 =>
        /\ rec.path \in {"cold", "failure"}
        /\ rec.genre_recs = <<>> /\ rec.content_recs = <<>>
        /\ Tags(rec.result) \subseteq {"popular"}
        /\ rec.hit = {} => rec.result = PopularRows

\* C5, its case: a user with exactly 2 entries, one of them liked, in a
\* catalog where books of the entries' genre are left to propose.
C5_Witness ==
    /\ rec.path = "cold"
    /\ Cardinality(Owned(rec.user)) = 2
    /\ \E r \in get_user_books(rec.user) : Liked(r.user_rating)
    /\ \E g \in Range(QueriedGenres(rec.user)) : GenreMatches(g) \ Owned(rec.user) # {}
    /\ rec.result # <<>>

\* C6, as stated: when the popularity query returns rows (the catalog has
\* books and no store call fails), the returned list is not empty.
C6_EmptyOnlyIfCatalogEmpty ==
    Answered /\ rec.result = <<>> /\ rec.hit = {} => books = <<>>

\* C6, amended: the returned list is empty only if the catalog has no books,
\* the popularity query failed, or the user has more than 2 entries and owns
\* every book of the popularity list.
C6_EmptyOnlyIfNothingLeft ==
    Answered /\ rec.result = <<>> =>
        \/ books = <<>>
        \/ "popular" \in rec.hit
        \/ /\ Cardinality(Owned(rec.user)) > 2
           /\ Ids(PopularRows) \subseteq Owned(rec.user)

\* C6, its case: nothing failed, the catalog has books, the list is empty.
C6_Witness ==
    /\ Answered
    /\ rec.hit = {}
    /\ books # <<>>
    /\ rec.result = <<>>

\* C7: for a user with more than 2 entries whose library read succeeded, the
\* candidates are what the two strategies proposed less the owned books; if
\* there are any, the list is MAX_RECOMMENDATIONS of them (all when fewer)
\* and holds no popularity-tagged book; if there are none, the list is
\* MAX_RECOMMENDATIONS rows (all when fewer) of the popularity query's rows
\* less the owned ones.  No list mixes popularity-tagged books with others.
C7_FallbackPolicy ==
    /\ Answered => "popular" \notin Tags(rec.result) \/ Tags(rec.result) = {"popular"}
    /\ Answered /\ Cardinality(Owned(rec.user)) > 2 /\ rec.path # "failure" =>
          /\ Ids(rec.candidates) =
                (Ids(rec.genre_recs) \cup Ids(rec.content_recs)) \ Owned(rec.user)
          /\ Distinct(rec.candidates)
          /\ IF rec.candidates # <<>>
             THEN /\ rec.path = "personal"
                  /\ Range(rec.result) \subseteq Range(rec.candidates)
                  /\ Len(rec.result) = Min(MAX_RECOMMENDATIONS, Len(rec.candidates))
                  /\ "popular" \notin Tags(rec.result)
             ELSE LET left == {r \in Range(rec.popular) : r.id \notin Owned(rec.user)}
                  IN  /\ rec.path = "fallback"
                      /\ "popular" \notin rec.hit => rec.popular = PopularRows
                      /\ Range(rec.result) \subseteq left
                      /\ Len(rec.result) = Min(MAX_RECOMMENDATIONS, Cardinality(left))
                      /\ Tags(rec.result) \subseteq {"popular"}

\* C7, its case: the strategies left nothing after the owned books were
\* removed, and the fallback list is the popularity rows without an owned
\* one.
C7_Witness ==
    /\ rec.path = "fallback"
    /\ rec.genre_recs # <<>>
    /\ rec.candidates = <<>>
    /\ rec.result # <<>>
    /\ Ids(rec.popular) \cap Owned(rec.user) # {}

\* The library of C8: exactly 3 entries, all rated, in two genres whose
\* average ratings are both at least 7, with at least 10 catalog books
\* matching the two genres.
C8_Library(u) ==
    LET aggs == get_user_genres_and_ratings(u)
    IN  /\ Cardinality(get_user_books(u)) = 3
        /\ \A r \in get_user_books(u) : r.user_rating # NoRating
        /\ Len(aggs) = 2
        /\ \A i \in DOMAIN aggs : aggs[i].avg_rating.num >= 7 * aggs[i].avg_rating.den
        /\ Cardinality(UNION {GenreMatches(aggs[i].genre) : i \in DOMAIN aggs}) >= 10

\* C8: with that library and a store that does not fail, the returned list
\* is not empty, has pairwise distinct ids and at most MAX_RECOMMENDATIONS
\* entries, none of them owned, each tagged genre_based or content_based.
C8_EndToEnd ==
    Answered /\ C8_Library(rec.user) =>
        /\ rec.result # <<>>
        /\ Distinct(rec.result)
        /\ Len(rec.result) <= MAX_RECOMMENDATIONS
        /\ ResultIds \cap Owned(rec.user) = {}
        /\ Tags(rec.result) \subseteq {"genre_based", "content_based"}

\* C8, its case: such a library, both strategies proposing books, and a
\* list of MAX_RECOMMENDATIONS books.
C8_Witness ==
    /\ Answered
    /\ C8_Library(rec.user)
    /\ rec.genre_recs # <<>> /\ rec.content_recs # <<>>
    /\ Len(rec.result) = MAX_RECOMMENDATIONS

\* The second of two consecutive calls for a user with more than 2 entries:
\* the list on display is refreshed, library and catalog as they were.
Repeated ==
    /\ Answered
    /\ rec'.path # "none"
    /\ rec'.user = rec.user
    /\ Cardinality(Owned(rec.user)) > 2
    /\ UNCHANGED <<books, user_books>>

WithinLimits(u) ==
    /\ \A g \in Range(QueriedGenres(u)) : Cardinality(GenreMatches(g)) <= GenreLimit
    /\ Cardinality(Described) <= TopSimilar

GenresAt(aggs, S) ==
    LET order == Ascending(S) IN [k \in DOMAIN order |-> aggs[order[k]].genre]

Unrated(u) == {r.id : r \in {x \in get_user_books(u) : x.user_rating = NoRating}}

\* The user's entries rated 5 or more.
RatedFivePlus(u) ==
    {r.id : r \in {x \in get_user_books(u) : x.user_rating \in 5..MaxRating}}

\* The score of every described catalog book against those entries.
PoolScores(u, up) ==
    LET sums == SimilaritySums(RatedFivePlus(u), Described, up)
    IN  Eager([b \in Described |-> Mean(sums[b], Cardinality(RatedFivePlus(u)))])

NonIncreasing(list) ==
    \A i, j \in DOMAIN list : i < j => list[i].similarity_score >= list[j].similarity_score

\* C11: the content strategy's list has at most 10 entries, each tagged
\* content_based, with a score above 0.05, in non-increasing score order;
\* when the strategy gets to score the pool, its list is the pool's books
\* above 0.05, or the 10 of them that no left-out one beats, each with its
\* own score.  Genre-based and popular records carry no score.
C11_ContentRanking ==
    /\ \A r \in Range(rec.genre_recs) \cup Range(rec.popular) :
          r.similarity_score = NoScore
    /\ rec.path = "content" =>
          LET list == rec.content_recs
          IN  /\ Len(list) <= TopSimilar
              /\ Distinct(list)
              /\ NonIncreasing(list)
              /\ \A r \in Range(list) :
                    /\ r.recommendation_type = "content_based"
                    /\ r.similarity_score > SimilarityThreshold
              /\ Unrated(rec.user) = {} /\ RatedFivePlus(rec.user) # {} =>
                    LET score == PoolScores(rec.user, "round_up" \in rec.hit)
                        above == {b \in Described : score[b] > SimilarityThreshold}
                    IN  /\ Ids(list) \subseteq above
                        /\ Len(list) = Min(TopSimilar, Cardinality(above))
                        /\ \A r \in Range(list) : r.similarity_score = score[r.id]
                        /\ \A x \in Ids(list), y \in above \ Ids(list) :
                              score[x] >= score[y]

\* C11, its case: more than ten pool books score above 0.05, and the list
\* holds ten of them, not all with the same score.
C11_Witness ==
    /\ rec.path = "content"
    /\ Len(rec.content_recs) = TopSimilar
    /\ Unrated(rec.user) = {}
    /\ \A b \in Described : PoolScores(rec.user, FALSE)[b] > SimilarityThreshold
    /\ Cardinality(Described) > TopSimilar
    /\ rec.content_recs[1].similarity_score > rec.content_recs[TopSimilar].similarity_score

\* C12: every similarity_score attached to a content-based recommendation
\* lies in the closed interval from 0 to 1 (0 to 10000 on the model's scale).
\* The score of a candidate against a single liked book whose row has the
\* candidate's direction is the cosine the doubles give, which can come out
\* above 1.0.
C12_ScoreInUnitInterval ==
    rec.path = "content" =>
        \A i \in DOMAIN rec.content_recs :
            rec.content_recs[i].similarity_score \in 0..10000

\* The positions of list that hold the first occurrence of their id.
FirstAt(list) == {i \in DOMAIN list : \A j \in 1..(i - 1) : list[j].id # list[i].id}

\* unique holds the records of the first occurrences of list, in list's
\* order.
FirstOccurrences(list, unique) ==
    LET first == FirstAt(list)
        kth(k) == CHOOSE i \in first : Cardinality({j \in first : j <= i}) = k
    IN  /\ Len(unique) = Cardinality(first)
        /\ \A k \in DOMAIN unique : unique[k] = list[kth(k)]

\* C13: _remove_duplicates returns the records at the first occurrence of
\* each id, in the order of the input, and leaves the input list as it was;
\* applied to its own result it returns that result.
C13_Deduplication ==
    [][sel'.done =>
          /\ sel'.list = sel.list
          /\ FirstOccurrences(sel'.list, sel'.once)
          /\ sel'.twice = sel'.once]_vars

\* A list of four records in which an id comes back after another id, first
\* from the genre strategy and later from the content strategy.
C13_Witness ==
    /\ sel.done
    /\ Len(sel.list) = MaxList
    /\ Len(sel.once) = 2
    /\ sel.list[1].id = sel.list[3].id
    /\ sel.list[1] # sel.list[3]
    /\ sel.list[2].id # sel.list[1].id
    /\ sel.once = <<sel.list[1], sel.list[2]>>

\* The books both strategies of the answered call proposed and the user
\* does not hold.
FromBoth == (Ids(rec.genre_recs) \cap Ids(rec.content_recs)) \ rec.library

\* C14: the candidates are the genre strategy's records followed by the
\* content strategy's; a book proposed by both strategies is among the
\* deduplicated candidates once, as the genre strategy's record, tagged
\* genre_based and without a similarity_score, and so it is in the result.
C14_GenreFirst ==
    rec.path \in {"personal", "fallback"} =>
        /\ \A i, j \in DOMAIN rec.candidates :
              (i < j /\ rec.candidates[j].recommendation_type = "genre_based")
                  => rec.candidates[i].recommendation_type = "genre_based"
        /\ \A b \in FromBoth :
              /\ Cardinality({i \in DOMAIN rec.candidates : rec.candidates[i].id = b}) = 1
              /\ \A r \in Range(rec.candidates) \cup Range(rec.result) :
                    r.id = b => /\ r.recommendation_type = "genre_based"
                                /\ r.similarity_score = NoScore
                                /\ r \in Range(rec.genre_recs)

\* A personalised answer that returns a book both strategies proposed, next
\* to a book of the content strategy alone.
C14_Witness ==
    /\ rec.path = "personal"
    /\ \E b \in FromBoth : b \in ResultIds
    /\ "content_based" \in Tags(rec.result)

\* The books the strategies of the answered call proposed.
Proposed == Ids(rec.genre_recs) \cup Ids(rec.content_recs)

\* C15: a personalised result holds exactly min(N, k) entries, k the number
\* of distinct books the two strategies proposed that the user does not
\* hold, and none the user holds: the held books are taken out before the
\* list is cut to N.
C15_FilterBeforeTruncate ==
    rec.path = "personal" =>
        /\ Len(rec.result) =
              Min(MAX_RECOMMENDATIONS, Cardinality(Proposed \ rec.library))
        /\ ResultIds \cap rec.library = {}
        /\ Distinct(rec.result)

\* A personalised answer of N entries where the strategies proposed more
\* than N books the user does not hold, and held books at the front of the
\* genre strategy's list.
C15_Witness ==
    /\ rec.path = "personal"
    /\ Len(rec.result) = MAX_RECOMMENDATIONS
    /\ Cardinality(Proposed \ rec.library) > MAX_RECOMMENDATIONS
    /\ rec.genre_recs # <<>>
    /\ rec.genre_recs[1].id \in rec.library

\* The store calls inside the genre strategy and inside the content strategy.
GenreFaults == {"genres", "find1", "find2", "find3"}

ContentFaults == {"library2", "candidates"}

\* The books the lookups of the queried genres that did not fail can give.
LookedUp ==
    LET queried == Cut(rec.preferred, MaxGenres)
    IN  UNION {GenreMatches(queried[i]) :
                  i \in {j \in DOMAIN queried : FindFault(j) \notin rec.hit}}

\* C16 as stated: any store failure inside a strategy, a failed genre lookup
\* included, leaves that strategy without candidates.
C16_FailedStrategyEmpty ==
    rec.path \in {"personal", "fallback"} =>
        /\ rec.hit \cap GenreFaults # {} => rec.genre_recs = <<>>
        /\ rec.hit \cap ContentFaults # {} => rec.content_recs = <<>>

\* C16: a failed genre-aggregate read leaves the genre strategy without
\* candidates and a failed genre lookup leaves it without the candidates of
\* that genre; a failed library read or candidate sample leaves the content
\* strategy without candidates.  The other strategy proposes what it
\* proposes when nothing fails, the call returns a list, and the list is
\* taken from the popularity list when no candidate outside the library
\* remains.
C16_FailureIsolation ==
    Answered /\ rec.path \notin {"genre", "content", "popular"} =>
        /\ ~rec.raised
        /\ rec.path = "failure" => "library" \in rec.hit
        /\ rec.path \in {"personal", "fallback"} =>
              /\ "genres" \in rec.hit => rec.genre_recs = <<>>
              /\ Ids(rec.genre_recs) \subseteq LookedUp
              /\ rec.hit \cap ContentFaults # {} => rec.content_recs = <<>>
              /\ rec.hit \cap ContentFaults = {} =>
                    rec.content_recs \in
                        {c.rows : c \in _get_content_based_recommendations(rec.user, {})}
              /\ rec.hit \cap GenreFaults = {} =>
                    rec.genre_recs \in
                        {g.rows : g \in _get_genre_based_recommendations(rec.user, {})}
              /\ rec.path = "fallback" <=> rec.candidates = <<>>
              /\ rec.path = "fallback" =>
                    /\ Range(rec.result) \subseteq Range(rec.popular)
                    /\ ResultIds \cap rec.library = {}

\* A personalised answer where the lookup of the first genre failed, the
\* second genre's lookup gave the genre strategy its candidates, and the
\* content strategy gave its own.
C16_Witness ==
    /\ rec.path = "personal"
    /\ rec.hit = {"find1"}
    /\ rec.genre_recs # <<>>
    /\ rec.content_recs # <<>>
    /\ rec.result # <<>>

\* C17: the liked set of the content strategy is the entries rated 5 or
\* more, an unrated entry being skipped; so whenever the user has such an
\* entry and a candidate of the pool scores above the threshold against the
\* liked books, the strategy returns candidates, unrated entries in the
\* library or not.
C17_UnratedSkipped ==
    (/\ rec.path = "content"
     /\ RatedFivePlus(rec.user) # {}
     /\ \E b \in Described : PoolScores(rec.user, FALSE)[b] > SimilarityThreshold)
        => rec.content_recs # <<>>

\* The user's entries that have a rating and whose book has a genre.
RatedWithGenre(u) ==
    {r \in user_books : /\ r.user_id = u
                        /\ r.user_rating # NoRating
                        /\ ~IsNull(books[r.book_id].genre)}

\* C18: the aggregates read for the genre strategy hold one aggregate per
\* genre of the user's entries that have a rating and a genre, and no other;
\* its count is the number of those entries in the genre and its average
\* their mean rating; the list goes by average descending, then by count
\* descending.
C18_GenreAggregates ==
    rec.path = "genre" =>
        LET aggs == get_user_genres_and_ratings(rec.user)
            entries == RatedWithGenre(rec.user)
            in(g) == {r \in entries : books[r.book_id].genre = g}
        IN  /\ \A i, j \in DOMAIN aggs : i # j => aggs[i].genre # aggs[j].genre
            /\ {aggs[i].genre : i \in DOMAIN aggs}
                  = {books[r.book_id].genre : r \in entries}
            /\ \A i \in DOMAIN aggs :
                  LET of == in(aggs[i].genre)
                  IN  /\ aggs[i].count = Cardinality(of)
                      /\ aggs[i].avg_rating.den > 0
                      /\ aggs[i].avg_rating.num * Cardinality(of)
                            = SumOver(of, [r \in of |-> r.user_rating])
                                * aggs[i].avg_rating.den
            /\ \A i, j \in DOMAIN aggs :
                  i < j => /\ ~AvgLess(aggs[i].avg_rating, aggs[j].avg_rating)
                           /\ ~AvgLess(aggs[j].avg_rating, aggs[i].avg_rating)
                                 => aggs[i].count >= aggs[j].count

\* The genre strategy called for a library with an unrated entry, a rated
\* entry of a book without genre, and two genres of different averages.
C18_Witness ==
    /\ rec.path = "genre"
    /\ Unrated(rec.user) # {}
    /\ \E r \in user_books : /\ r.user_id = rec.user
                              /\ r.user_rating # NoRating
                              /\ IsNull(books[r.book_id].genre)
    /\ LET aggs == get_user_genres_and_ratings(rec.user)
       IN  /\ Len(aggs) = 2
           /\ AvgLess(aggs[2].avg_rating, aggs[1].avg_rating)

\* name is in text from some position on, letter for letter.
ContainsExactly(text, name) ==
    \E k \in 0..(Len(text) - Len(name)) :
        \A i \in DOMAIN name : text[k + i] = name[i]

\* name is in text from some position on, the case of letters aside.
ContainsNoCase(text, name) ==
    \E k \in 0..(Len(text) - Len(name)) :
        \A i \in DOMAIN name : Lower(text[k + i]) = Lower(name[i])

NoWildcard(name) == \A i \in DOMAIN name : name[i] \notin {"%", "_"}

\* The genres the answered call of the genre strategy queried: the first
\* three of the preferred genres.
QueriedAt == Cut(rec.preferred, MaxGenres)

\* C19 as stated: every candidate of the genre strategy has a genre that
\* contains a queried genre name as a substring, letter for letter.
C19_ExactSubstring ==
    rec.path = "genre" =>
        \A r \in Range(rec.genre_recs) :
            \E i \in DOMAIN QueriedAt : ContainsExactly(books[r.id].genre, QueriedAt[i])

\* C19: the genre strategy queries the first three preferred genres at most
\* and takes at most 5 books for each, at most 15 candidates; every
\* candidate is tagged genre_based, without a score, and has a genre that
\* contains a queried genre name the case of letters aside (the names
\* having neither % nor _).
C19_GenreBounds ==
    rec.path = "genre" =>
        /\ Len(QueriedAt) <= 3
        /\ Len(rec.genre_recs) <= GenreLimit * Len(QueriedAt)
        /\ Len(rec.genre_recs) <= 15
        /\ \A i \in DOMAIN QueriedAt :
              Cardinality({b \in Ids(rec.genre_recs) :
                              /\ ContainsNoCase(books[b].genre, QueriedAt[i])
                              /\ \A j \in DOMAIN QueriedAt \ {i} :
                                    ~ContainsNoCase(books[b].genre, QueriedAt[j])})
                  <= 5
        /\ \A r \in Range(rec.genre_recs) :
              /\ r.recommendation_type = "genre_based"
              /\ r.similarity_score = NoScore
              /\ ~IsNull(books[r.id].genre)
              /\ \E i \in DOMAIN QueriedAt :
                    /\ NoWildcard(QueriedAt[i])
                    /\ ContainsNoCase(books[r.id].genre, QueriedAt[i])

\* The genre strategy called for a user of four preferred genres, one of
\* them the genre of more than 5 books: more than 5 candidates, one found
\* for two queried names, of which its genre holds one in another case.
C19_Witness ==
    /\ rec.path = "genre"
    /\ Len(rec.preferred) = 4
    /\ Len(rec.genre_recs) > GenreLimit
    /\ \E i \in DOMAIN QueriedAt : Cardinality(GenreMatches(QueriedAt[i])) > GenreLimit
    /\ \E r \in Range(rec.genre_recs) :
          /\ Cardinality({k \in DOMAIN rec.genre_recs : rec.genre_recs[k].id = r.id}) = 2
          /\ \E i \in DOMAIN QueriedAt :
                /\ ContainsNoCase(books[r.id].genre, QueriedAt[i])
                /\ ~ContainsExactly(books[r.id].genre, QueriedAt[i])

\* The users who hold book b in their library.
Holders(b) == {r.user_id : r \in {x \in user_books : x.book_id = b}}

\* Book a ranks before book b: more holders, or as many and the later id.
RanksBefore(a, b) ==
    \/ Cardinality(Holders(a)) > Cardinality(Holders(b))
    \/ Cardinality(Holders(a)) = Cardinality(Holders(b)) /\ a > b

\* C20: the popularity list a call read holds catalog books, each once and
\* tagged popular, in the order of the number of distinct users holding
\* them, descending, books of equal numbers by id descending; books nobody
\* holds are ranked with the number 0, and the list is the first 10 of the
\* ranking, the whole catalog when it has 10 books at most.
C20_PopularityRanking ==
    (rec.path \in {"cold", "fallback", "failure"} /\ "popular" \notin rec.hit) =>
        /\ Distinct(rec.popular)
        /\ Ids(rec.popular) \subseteq BookIds
        /\ Len(rec.popular) = Min(PopularLimit, Cardinality(BookIds))
        /\ \A r \in Range(rec.popular) :
              r.recommendation_type = "popular" /\ r.similarity_score = NoScore
        /\ \A i, j \in DOMAIN rec.popular :
              i < j => RanksBefore(rec.popular[i].id, rec.popular[j].id)
        /\ \A b \in BookIds \ Ids(rec.popular) :
              \A i \in DOMAIN rec.popular : RanksBefore(rec.popular[i].id, b)

\* A popularity list led by a book two users hold, then a book one user
\* holds, then two books nobody holds, the later id first.
C20_Witness ==
    /\ rec.path \in {"cold", "fallback", "failure"}
    /\ "popular" \notin rec.hit
    /\ Len(rec.popular) >= 4
    /\ Cardinality(Holders(rec.popular[1].id)) = 2
    /\ Cardinality(Holders(rec.popular[2].id)) = 1
    /\ Cardinality(Holders(rec.popular[3].id)) = 0
    /\ Cardinality(Holders(rec.popular[4].id)) = 0
    /\ rec.popular[2].id < rec.popular[3].id

\* C21: the library get_recommendations read first, by which it decides
\* the cold start and leaves out the held books, is the library the content
\* strategy read for the liked books, requests that came in meanwhile
\* waiting; a personalised result holds no book of it.
C21_Snapshot ==
    rec.path \in {"personal", "fallback"} =>
        /\ rec.reread = rec.read
        /\ rec.library = {r.id : r \in rec.read}
        /\ ResultIds \cap rec.library = {}

\* A personalised answer of a call during which a request came in to remove
\* a held book.
C21_Witness ==
    /\ rec.path = "personal"
    /\ rec.result # <<>>
    /\ \E q \in rec.waiting :
          q.user = rec.user /\ q.data = "confirm_remove" /\ q.book \in rec.library

(***************************************************************************)
(* Properties of the store and the dialogues                               *)
(***************************************************************************)
\* C22: get_recommendations is read-only.  A step in which a call of
\* get_recommendations is answered, on whatever path and the paths on which
\* a store call raised included, leaves the catalog, the library of every
\* user and the dialogue state of every user as they were.
C22_ReadOnly ==
    [][(rec = NoRec /\ rec' # NoRec) =>
          /\ books' = books
          /\ user_books' = user_books
          /\ user_states' = user_states]_vars

\* A call of the reader was answered after a store call raised, while the
\* reader holds books and both users are in a dialogue.
C22_Witness ==
    /\ rec.user = Reader
    /\ rec.path = "failure"
    /\ Owned(Reader) # {}
    /\ \A u \in Users : user_states[u] # NoState

\* The entries user u holds for book b.
Entries(u, b) == {x \in user_books : x.user_id = u /\ x.book_id = b}

\* C23: one entry per (user, book).  After any sequence of add-to-library,
\* rate (pressed or typed), manual-add and remove operations by the users, the
\* library holds at most one entry for each pair of a user and a book: an
\* operation on a book the user holds replaces or updates the entry, it does
\* not create a second one.
C23_OneEntry ==
    \A x \in user_books, y \in user_books :
        (x.user_id = y.user_id /\ x.book_id = y.book_id) => x = y

\* The reader rated a book by button and then by text, so that the entry
\* was written twice, while the other user holds the same book.
C23_Witness ==
    /\ reply.user = Reader
    /\ reply.update.kind = "text"
    /\ reply.text = "book_updated"
    /\ \E x \in Entries(Reader, reply.book) : x.user_rating = 7
    /\ Entries(2, reply.book) # {}

\* The texts that name an integer from 1 to 10.
RatingNames ==
    { <<"1">>, <<"2">>, <<"3">>, <<"4">>, <<"5">>, <<"6">>, <<"7">>, <<"8">>,
      <<"9">>, <<"1", "0">> }

\* The bot has asked user u for a rating: after add_to_library_<book>, or at
\* the last step of the manual dialogue.
AskedForRating(u) ==
    \/ user_states[u].state = "waiting_rating"
    \/ /\ user_states[u].state = "adding_manual_book"
       /\ StepOf(user_states[u].data) = RATING

\* C24: rating range.  After any sequence of operations every rating stored
\* in a library entry is an integer from 1 to 10, or absent.  A text sent
\* when a rating is asked for that names no integer from 1 to 10 is rejected:
\* the dialogue states, the libraries and the catalog stay as they were.  A
\* rating button that carries a value outside 1..10 leaves the libraries as
\* they were.
C24_RatingRange ==
    [][/\ \A x \in user_books' :
             \/ x.user_rating = NoRating
             \/ x.user_rating \in MinRating..MaxRating
       /\ ( /\ clock' = clock
            /\ reply'.update.kind = "text"
            /\ AskedForRating(reply'.user)
            /\ reply'.update.text \notin RatingNames )
          => /\ user_states' = user_states
             /\ user_books' = user_books
             /\ books' = books
       /\ ( /\ clock' = clock
            /\ reply'.update.kind = "callback"
            /\ reply'.update.data = "rate"
            /\ reply'.update.arg \notin MinRating..MaxRating )
          => user_books' = user_books]_vars

\* The reader, who holds a rated book, was asked for the rating of another
\* entry and sent 11: the bot answered that this is no rating and goes on
\* waiting.
C24_Witness ==
    /\ reply.user = Reader
    /\ reply.update.kind = "text"
    /\ reply.update.text = <<"1", "1">>
    /\ reply.text = "invalid_rating"
    /\ user_states[Reader].state = "waiting_rating"
    /\ \E x \in user_books : x.user_id = Reader /\ x.user_rating = 3

\* C25: add with a typed rating.  After add_to_library_<book> for a catalog
\* book the user does not hold, and then a text naming a rating r from 1 to
\* 10, the book is in the user's library with the rating r and the dialogue
\* state is cleared: whenever the bot answers a typed rating with the message
\* of success, the library holds the entry.
C25_TypedRatingAdds ==
    (reply.update.kind = "text" /\ reply.text = "book_updated") =>
        /\ user_states[reply.user] = NoState
        /\ reply.book \in BookIds
        /\ \E x \in Entries(reply.user, reply.book) :
              /\ x.user_rating \in MinRating..MaxRating
              /\ reply.update.text = str(x.user_rating)

\* The steps of the manual dialogue in their order, and the longest text each
\* of the first four takes.
StepOrder == <<TITLE, AUTHOR, GENRE, DESCRIPTION, RATING>>
StepLimits == <<MaxTitle, MaxAuthor, MaxGenre, MaxDescription>>

StepIndex(step) == CHOOSE i \in DOMAIN StepOrder : StepOrder[i] = step

\* The fields a manual dialogue has accumulated: the items of the data of
\* its state.
FieldsOf(data) == Get(loads(data).value.items, DATA, NoneValue).items

\* The text the model's users enter for a field at its step and the step
\* takes.
EnteredAt(step) ==
    CHOOSE t \in FieldTexts(step) : Len(t) <= StepLimits[StepIndex(step)]

\* The rating a text names.
NamedRating(text) == CHOOSE r \in MinRating..MaxRating : str(r) = text

\* A text message of user u is handled while u is in the manual dialogue.
ManualText(u) ==
    /\ reply'.user = u
    /\ reply'.update.kind = "text"
    /\ user_states[u].state = "adding_manual_book"

\* C26: the manual-add dialogue.  From add_manual on the step advances in
\* the order title, author, genre, description, rating, one step for each
\* accepted text, and the accepted text is added to the accumulated fields.
\* A rejected text (too long for the step, or no rating) leaves the step,
\* the accumulated fields, the catalog and the libraries as they were.  An
\* accepted rating at the last step adds exactly one book to the catalog,
\* with the entered title, author, genre and description, puts it into the
\* user's library with the entered rating and clears the dialogue state.
\* No step before the last one writes to the catalog or to a library.
C26_ManualDialogue ==
    [][\A u \in Users :
          ManualText(u) =>
             LET text == reply'.update.text
                 step == StepOf(user_states[u].data)
                 i == StepIndex(step)
             IN  IF step # RATING
                 THEN /\ books' = books
                      /\ user_books' = user_books
                      /\ IF Len(text) <= StepLimits[i]
                         THEN /\ user_states'[u].state = "adding_manual_book"
                              /\ StepOf(user_states'[u].data) = StepOrder[i + 1]
                              /\ FieldsOf(user_states'[u].data)
                                    = Append(FieldsOf(user_states[u].data),
                                             Item(step, StrValue(text)))
                         ELSE user_states' = user_states
                 ELSE IF text \in RatingNames
                 THEN /\ books' = Append(books, Row(EnteredAt(TITLE), EnteredAt(AUTHOR),
                                                    EnteredAt(GENRE),
                                                    EnteredAt(DESCRIPTION)))
                      /\ user_books' = user_books \cup
                            {[user_id |-> u, book_id |-> Len(books) + 1,
                              user_rating |-> NamedRating(text),
                              date_added |-> clock]}
                      /\ user_states' = [user_states EXCEPT ![u] = NoState]
                 ELSE /\ books' = books
                      /\ user_books' = user_books
                      /\ user_states' = user_states]_vars

\* The reader went through the manual dialogue: the book with the entered
\* fields is the newest of the catalog and is in the reader's library with
\* the rating 7.
C26_Witness ==
    /\ reply.user = Reader
    /\ reply.update.kind = "text"
    /\ reply.text = "book_added"
    /\ Len(books) = ChatCatalog + 1
    /\ books[Len(books)] = Row(TitleText, BOB, FA, LongText)
    /\ \E x \in Entries(Reader, Len(books)) : x.user_rating = 7
    /\ user_states[Reader] = NoState

\* The bot answered the button ol_book_<page>_<index> of user u by offering
\* a book of the catalog.
Selected(u) ==
    /\ reply.user = u
    /\ reply.update.kind = "callback"
    /\ reply.update.data = "ol_book"
    /\ reply.text \in {"choose_rating", "already_in_library"}

\* C27: search-result selection addresses the displayed book.  Results are
\* shown in pages of 5; the button of the i-th book on page p selects the
\* book at position p*5+i of the stored search results, and that book is the
\* one added to the catalog and offered for rating, on every page.
C27_SelectsDisplayed ==
    \A u \in Users :
        LET position == reply.update.arg * PageSize + reply.update.book
            search_results == user_data[u].search_results
        IN  (Selected(u) /\ position < Len(search_results)) =>
               /\ reply.book \in BookIds
               /\ books[reply.book].title = search_results[position + 1].title
               /\ books[reply.book].author = search_results[position + 1].author

\* C28: add_book_to_global returns the identity of the right catalog book.
\* The identity it returns is never None and names a catalog row whose title
\* and author are those passed to the call (the row just inserted, or the row
\* already there for the same external id); two different books, two hits
\* that both carry an empty external id among them, never get the same
\* identity.
C28_RightIdentity ==
    \A u \in Users :
        Selected(u) =>
            LET selected_book == user_data[u].search_results[reply.update.book + 1]
            IN  /\ reply.book # NoBook
                /\ reply.book \in BookIds
                /\ books[reply.book].title = selected_book.title
                /\ books[reply.book].author = selected_book.author


\* The step is the handling of a rate_<book>_<r> callback with r in 1..10.
RatePressed ==
    /\ reply'.update.kind = "callback"
    /\ reply'.update.data = "rate"
    /\ reply'.update.arg \in MinRating..MaxRating
    /\ clock' = clock

\* C29: the rating button is an upsert with a narrow frame.  After a
\* rate_<book>_<r> callback with r in 1..10 the user's library holds exactly
\* one entry for that book, with rating r: inserted if absent, otherwise the
\* entry held with only its rating changed (its date added is kept).  Every
\* other entry of this user, every entry of other users, the catalog and the
\* dialogue states are unchanged.
C29_RateUpsert ==
    [][RatePressed =>
         LET u == reply'.user
             b == reply'.update.book
             r == reply'.update.arg
         IN  /\ \E x \in user_books' :
                   /\ x.user_id = u /\ x.book_id = b /\ x.user_rating = r
                   /\ \A y \in user_books' :
                         (y.user_id = u /\ y.book_id = b) => y = x
                   /\ \A y \in user_books :
                         (y.user_id = u /\ y.book_id = b) =>
                             x = [y EXCEPT !.user_rating = r]
             /\ {y \in user_books' : ~(y.user_id = u /\ y.book_id = b)}
                  = {y \in user_books : ~(y.user_id = u /\ y.book_id = b)}
             /\ books' = books
             /\ user_states' = user_states]_vars

\* A rate button has changed the rating of an entry added at an earlier time,
\* while a dialogue is open and another entry is held.
C29_Witness ==
    /\ reply.update.data = "rate"
    /\ reply.text = "book_updated"
    /\ \E x \in user_books :
          /\ x.user_id = reply.user /\ x.book_id = reply.book
          /\ x.user_rating = reply.update.arg
          /\ x.date_added < clock
    /\ \E y \in user_books : ~(y.user_id = reply.user /\ y.book_id = reply.book)
    /\ \E u \in Users : user_states[u].state = "waiting_rating"


\* The step handles a text message (every other step of the chats records an
\* update of another kind).
TextHandled == reply'.update.kind = "text"

\* The step handles /cancel or the callback cancel.
CancelHandled == reply'.update.data = "cancel"

\* The update handled last ended a flow of the user: a cancel, or a search
\* query that was answered.
FlowEnded ==
    \/ reply.update.data = "cancel"
    \/ /\ reply.update.kind = "text"
       /\ reply.text \in {"search_no_results", "search_results"}

\* The step answers with the main menu and takes the text as no input.
MainMenuOnly ==
    /\ reply'.text = "main_menu"
    /\ UNCHANGED <<books, user_books, user_states, user_data>>

\* C30: cancel and one-shot states.  From any dialogue state a /cancel
\* command or a cancel callback leaves the user with no dialogue state and
\* the catalog and every library unchanged; a text received in
\* waiting_search_query clears the state.  A text from a user with no
\* dialogue state, so the next text after either, is answered with the main
\* menu and is no input to the ended flow.  One user's actions never change
\* the state of another user (each user has the one state of user_states).
C30_CancelOneShot ==
    [][/\ CancelHandled =>
             /\ user_states'[reply'.user] = NoState
             /\ UNCHANGED <<books, user_books>>
       /\ (TextHandled /\ user_states[reply'.user].state = "waiting_search_query")
             => user_states'[reply'.user] = NoState
       /\ (TextHandled /\ user_states[reply'.user] = NoState) => MainMenuOnly
       /\ (TextHandled /\ FlowEnded /\ reply'.user = reply.user) => MainMenuOnly
       /\ \A v \in Users :
             v # reply'.user => user_states'[v] = user_states[v]]_vars

\* A cancel of one user was handled and left them with no dialogue state,
\* while the other user is in the middle of adding a book and a library holds
\* an entry.
C30_Witness ==
    /\ reply.update.data = "cancel"
    /\ reply.text = "cancel"
    /\ user_states[reply.user] = NoState
    /\ user_books # {}
    /\ \E v \in Users :
          /\ v # reply.user
          /\ user_states[v].state = "adding_manual_book"
          /\ StepOf(user_states[v].data) = GENRE

=============================================================================
